---- MODULE Spec2Model ----
(***************************************************************************)
(* Delivery pipeline of statly-go: the bounded queue, the batching worker  *)
(* and the sender of HTTPTransport (package statly) and of                  *)
(* ObserveDestination (package logger).  One destination instance is       *)
(* modelled; which of the two types it is, and its configuration, is       *)
(* chosen in Init.                                                          *)
(*                                                                         *)
(* Records are identified by the order in which they reached the send on   *)
(* the queue channel (1, 2, 3, ...), so that arrival order is the order of *)
(* the naturals.  A call that returns before the channel send (destination *)
(* disabled, sampled out, done taken in Send's select) uses up no number.  *)
(***************************************************************************)
EXTENDS Integers, Sequences, FiniteSets, TLC

VARIABLES
    dest,            \* which implementation this instance is
    endpointOK,      \* the endpoint derived from the DSN parses as a URL
    enabled,         \* ObserveConfig.Enabled
    batchSize,       \* options.BatchSize / config.BatchSize
    sampling,        \* o.sampling: the rate of each level, in thousandths
    recording,       \* the history variables sent, offered, accepted and
                     \* overflow are kept (they are no state of the program)
    queue,           \* the buffered channel t.queue / o.queue
    done,            \* the channel t.done / o.done has been closed
    pc,              \* where the worker goroutine is
    ret,             \* where the worker continues when sendBatch returns
    batch,           \* the worker's local slice batch
    timer,           \* the worker's flush timer / ticker
    attempt,         \* sendBatch's loop variable
    posts,           \* POSTs issued by the current (or last) sendBatch call
    outcomes,        \* what each POST of the current call came back with
    delays,          \* the sleeps of the current (or last) sendBatch call
    lastStatus,      \* what the most recent POST came back with
    result,          \* how the last completed sendBatch call ended
    sent,            \* the batches handed to sendBatch so far, in order
    offered,         \* number of records that reached the send on the queue
    accepted,        \* the records put on the queue, in order
    overflow,        \* number of records dropped because the queue was full
    sendRet,         \* return value of the most recent HTTPTransport.Send
    lastWrite,       \* how the most recent ObserveDestination.Write ended
    closeState,      \* the caller of Close: none, waiting, returned
    acceptedAtClose, \* accepted, as it was when Close was invoked
    closeCalls,      \* number of Close calls so far
    panicked,        \* a goroutine panicked (the process is gone)
    flushPc,         \* where the caller of Flush is
    flushTimeout,    \* Flush's argument, in polling intervals of 100ms
    elapsed,         \* polling intervals since Flush was called
    client,          \* the *Client that NewClient returned
    options,         \* c.options
    givenOptions,    \* the Options that NewClient was called with
    globalClient,    \* the package's globalClient
    globalMu,        \* the package's globalMu: free, or who holds it
    capPc,           \* where the caller of the package's capture call is
    lastOp,          \* the most recent call of the API and what it returned
    minLevel,        \* l.minLevel of the Logger
    scrubber,        \* the Scrubber: enabled and allowlist
    value,           \* the value that is passed to Scrub
    scrubbed,        \* what Scrub returned
    memory,          \* the cells of the maps and slices, by address
    valueRef,        \* the interface{} passed to Scrub, as it is in memory
    resultRef,       \* the interface{} Scrub returned, as it is in memory
    patterns,        \* s.patterns, in the order in which they are applied
    texts,           \* a string, ScrubString of it, ScrubString of that
    scopes,          \* the Scope structs, by address
    users,           \* the User structs that a Scope's user points to
    tagCells,        \* the maps that a Scope's tags refers to
    arrays,          \* the arrays behind the breadcrumbs slices
    crumbLog,        \* per Scope, the breadcrumbs passed to AddBreadcrumb
    scopeCalls,      \* number of calls of Scope methods so far
    clientScope,     \* c.scope, the address of the client's Scope
    beforeSend,      \* c.options.BeforeSend
    events,          \* MockTransport.events: the events it was sent
    withScope,       \* the Scope of a running WithScope callback, or 0
    mu,              \* l.mu, the Logger's sync.RWMutex
    calls,           \* per goroutine, the Logger method it is running
    backoff,         \* a retry loop: its options, its attempt, its sleeps
    handed,          \* MockTransport.events, as the pointers they are
    mutexes,         \* globalMu, Client.mu and the mu of the client's Scope
    running          \* per goroutine, the call of the client it is in

\* the configuration of the destination, fixed by its constructor
config == <<dest, endpointOK, enabled, batchSize, sampling, recording>>

\* the caller of Flush
flushVars == <<flushPc, flushTimeout, elapsed>>

\* the Client and the package's global client
clientVars == <<client, options, givenOptions, globalClient, globalMu, capPc>>

\* the Scrubber, its argument and its result
scrubVars == <<scrubber, value, scrubbed, memory, valueRef, resultRef,
              patterns, texts>>

\* the Scopes and the memory they refer to
scopeVars == <<scopes, users, tagCells, arrays, crumbLog, scopeCalls>>

\* what a capture call of the client works with
captureVars == <<clientScope, beforeSend, events, withScope>>

\* the Logger's mutex and the goroutines that call the Logger
lockVars == <<mu, calls>>

\* the retry loop taken by itself, and the events in memory
extraVars == <<backoff, handed, mutexes, running>>

\* everything above the destination's queue and worker
apiVars == <<flushVars, clientVars, lastOp, minLevel, scrubVars, scopeVars,
             captureVars, lockVars, extraVars>>

\* the destination: its configuration, queue, worker and callers
destVars == <<config, queue, done, pc, ret, batch, timer, attempt, posts,
              outcomes, delays, lastStatus, result, sent, offered, accepted,
              overflow, sendRet, lastWrite, closeState, acceptedAtClose,
              closeCalls, panicked>>

vars == <<destVars, apiVars>>

-----------------------------------------------------------------------------
(* Bounds of the model *)

\* capacity of t.queue; the program uses 100 (make(chan *Event, 100))
TransportQueueCap == 2
\* capacity of o.queue; the program uses 1000 (make(chan *Entry, 1000))
ObserveQueueCap == 3
\* records offered to the queue in one behaviour
MaxOffers == 5
\* largest batch-size threshold tried
MaxBatchSize == 2
\* Close calls in one behaviour
MaxCloseCalls == 2
\* longest timeout passed to Flush, in polling intervals of 100ms
MaxFlushTimeout == 2
\* records offered to the queue in one behaviour with a caller of Flush
FlushOffers == 2
\* records offered to the queue in one behaviour with failing batches
FailureOffers == 2
\* entries that reach the queue in one behaviour of the goroutines
LockOffers == 1
\* records offered to the queue in one behaviour without Close
EndToEndOffers == 2
\* entries that reach the queue in one behaviour of the sampling test
SamplingOffers == 3
\* largest MaxRetries that the retry loop is run with
MaxMaxRetries == 36
\* events offered to the transport in one behaviour of the client
ClientOffers == 1
\* entries offered to the queue in one behaviour of the Logger
LoggerOffers == 2
\* nesting depth of the values passed to Scrub
MaxDepth == 3
\* number of pieces that a string passed to ScrubString is made of
MaxPieces == 2
\* largest maxBreadcrumbs of a Scope
MaxCrumbCap == 2
\* calls of Scope methods in one behaviour
MaxScopeCalls == 5
\* Scopes in one behaviour: the first one and its clones
MaxScopes == 2
\* calls of Scope methods in one behaviour with capture calls
CaptureScopeCalls == 2
\* events passed to the transport in one behaviour with capture calls
CaptureOffers == 1
\* goroutines that call the client at the same time
MaxCallers == 2
\* events offered to the transport of a client with a BeforeSend callback
DeliveryOffers == 3
\* clients that Init installs in one behaviour
LifecycleInits == 2
\* events offered to the transport of one client that Init installed
LifecycleOffers == 1
\* calls of the client's setters in one behaviour with a MockTransport
SnapshotCalls == 3
\* events captured in one behaviour with a MockTransport
SnapshotOffers == 1

-----------------------------------------------------------------------------
(* Program constants *)

\* a Transport that the caller passes in Options.Transport; it keeps the
\* events it is sent
MockTransport == "MockTransport"
HTTPTransport == "HTTPTransport"
ObserveDestination == "ObserveDestination"

\* options.MaxRetries after NewHTTPTransport's defaulting
MaxRetries == 3
\* options.RetryDelay after NewHTTPTransport's defaulting, in seconds
RetryDelay == 1

LevelTrace == 0
LevelDebug == 1
LevelInfo == 2
LevelWarn == 3
LevelError == 4
LevelFatal == 5
LevelAudit == 6
Levels == LevelTrace .. LevelAudit

\* defaultSampling, in thousandths
defaultSampling ==
    (LevelTrace :> 10) @@ (LevelDebug :> 100) @@ (LevelInfo :> 500) @@
    (LevelWarn :> 1000) @@ (LevelError :> 1000) @@ (LevelFatal :> 1000) @@
    (LevelAudit :> 1000)

\* config.Sampling: the levels it has a rate for, and the rate
SamplingConfigs ==
    {[l \in {} |-> 0], [l \in {LevelAudit} |-> 0], [l \in Levels |-> 0],
     [l \in {LevelDebug} |-> 1000]}

\* NewObserveDestination: the defaults, then the rates of config.Sampling
NewSampling(cfg) ==
    [l \in Levels |-> IF l \in DOMAIN cfg THEN cfg[l] ELSE defaultSampling[l]]

\* values of rand.Float64(), in thousandths
Draws == {0, 10, 11, 100, 101, 500, 501, 999}

Nil == "nil"

\* errors.go, and the errors that Init makes with errors.New
ErrMissingDSN == "statly: DSN is required"
ErrAlreadyInitialized == "statly: SDK already initialized, call Close() first"
ErrNoDSNProvided == "statly: no DSN provided"

\* connection strings: none, and one that is there
ValidDSN == "https://sk_test_xxx@statly.live/test"
DSNs == {"", ValidDSN}

\* Options.SampleRate, in thousandths
SampleRates == {0, 500, 1000}

\* the Options a caller passes to NewClient and Init
OptionSet == [DSN : DSNs, SampleRate : SampleRates]

\* the zero value of Options
NoOptions == [DSN |-> "", SampleRate |-> 0]

\* what client.Do can come back with: 0 is an error without a response,
\* anything else the response's status code
NetErr == 0
Responses == {NetErr, 200, 202, 301, 404, 503}

-----------------------------------------------------------------------------
(* Helpers *)

RECURSIVE Flatten(_)
Flatten(ss) == IF ss = <<>> THEN <<>> ELSE Head(ss) \o Flatten(Tail(ss))

Range(s) == {s[i] : i \in 1 .. Len(s)}

IsPrefix(s, t) == Len(s) <= Len(t) /\ SubSeq(t, 1, Len(s)) = s

NoDuplicates(s) == \A i, j \in 1 .. Len(s) : i # j => s[i] # s[j]

Min(a, b) == IF a < b THEN a ELSE b

\* The history variables.  A record is named by the number of records that
\* reached the queue before it; without the history every record is 0.
NextRecord == IF recording THEN offered + 1 ELSE 0

Count(n) == IF recording THEN n + 1 ELSE n

Recorded(h, x) == IF recording THEN Append(h, x) ELSE h

-----------------------------------------------------------------------------
(* The queue *)

QueueCap(d) == IF d = HTTPTransport THEN TransportQueueCap ELSE ObserveQueueCap

\* (variant: the capacity test off by one)
QueueHasRoomOffByOne(q, d) == Len(q) <= QueueCap(d)

\* a send on the buffered channel can proceed
QueueHasRoom(q, d) == Len(q) < QueueCap(d)

\* (variant: audit entries are sampled like the others)
SampledOutAuditToo(level, r) == r > sampling[level]

\* (variant: an entry whose draw equals the rate is dropped)
SampledOutAtRate(level, r) == level # LevelAudit /\ r >= sampling[level]

\* Write's sampling test: the entry is dropped when rand.Float64() > rate
SampledOut(level, r) == level # LevelAudit /\ r > sampling[level]

-----------------------------------------------------------------------------
(* sendBatch *)

IsSuccess(status) == status = 200 \/ status = 202

\* (variant: only 400 counts as a client error)
IsClientErrorOnly400(status) == status = 400

IsClientError(status) == status >= 400 /\ status < 500

\* (variant: the same delay before every retry)
BackoffDelayConstant(k) == RetryDelay

\* time.Sleep(t.options.RetryDelay * time.Duration(1<<attempt))
BackoffDelay(k) == RetryDelay * (2 ^ k)

\* (variant: the batch is sent once it holds more than BatchSize records)
BatchFullOffByOne(b) == Len(b) > batchSize

\* the worker's batch is full
BatchFull(b) == Len(b) >= batchSize

\* The worker goes on after sendBatch has returned.  r says which call of
\* sendBatch it was:
\*   "full"   the size-threshold flush in the worker's main select
\*   "timer"  the timer flush in the worker's main select
\*   "done"   HTTPTransport.worker's flush on receiving from t.done
\*   "drain"  HTTPTransport.worker's size-threshold flush in the drain loop
\*   "exit"   the final flush, after which the worker returns
ClearsBatch(r) == r \in {"full", "timer", "drain"}

AfterPc(r) ==
    CASE r \in {"full", "timer"} -> "select"
      [] r \in {"done", "drain"} -> "drain"
      [] OTHER -> "exited"

\* (variant: the timer is not reset after a flush)
AfterTimerNotReset(r, tm) == IF r = "exit" THEN "stopped" ELSE tm

\* the flush timer after the worker has gone on: only HTTPTransport.worker
\* resets its timer, and only in its main select; the deferred Stop runs
\* when the worker returns.
AfterTimer(r, tm) ==
    CASE r = "exit" -> "stopped"
      [] dest = HTTPTransport /\ r \in {"full", "timer"} -> "armed"
      [] OTHER -> tm

Resume(r, b, tm) ==
    /\ pc' = AfterPc(r)
    /\ batch' = IF ClearsBatch(r) THEN <<>> ELSE b
    /\ timer' = AfterTimer(r, tm)
    /\ ret' = "none"

\* sendBatch(b) is called; r is the call site, tm the timer at that moment.
\* HTTPTransport.sendBatch returns at once for an empty batch and when
\* json.Marshal fails; otherwise the worker enters the retry loop.
\* ObserveDestination.sendBatch ignores the errors of Marshal and NewRequest.
CallSendBatch(b, r, tm) ==
    /\ sent' = Recorded(sent, b)
    /\ attempt' = 0
    /\ posts' = 0
    /\ outcomes' = <<>>
    /\ delays' = <<>>
    /\ lastStatus' = NetErr
    /\ \/ /\ b # <<>>
          /\ pc' = "sendBatch"
          /\ ret' = r
          /\ batch' = b
          /\ timer' = tm
          /\ result' = "none"
       \/ /\ dest = HTTPTransport
          /\ result' = "marshalError"
          /\ Resume(r, b, tm)

\* One iteration of HTTPTransport.sendBatch's retry loop: the sleep, then
\* NewRequest and client.Do, then the classification of the response.
Return(res) ==
    /\ result' = res
    /\ outcomes' = <<>>
    /\ Resume(ret, batch, timer)

Continue ==
    /\ attempt' = attempt + 1
    /\ IF attempt + 1 < MaxRetries
         THEN /\ UNCHANGED <<pc, ret, batch, timer, result>>
         ELSE /\ result' = "exhausted"
              /\ Resume(ret, batch, timer)

HTTPSendAttempt(status) ==
    /\ ~panicked
    /\ dest = HTTPTransport
    /\ pc = "sendBatch"
    /\ delays' = IF attempt > 0 THEN Append(delays, BackoffDelay(attempt))
                                ELSE delays
    /\ IF ~endpointOK
         THEN /\ Continue
              /\ outcomes' = IF attempt + 1 < MaxRetries THEN outcomes ELSE <<>>
              /\ UNCHANGED <<posts, lastStatus>>
         ELSE /\ posts' = posts + 1
              /\ lastStatus' = status
              /\ IF status # NetErr /\ IsSuccess(status)
                   THEN /\ Return("success")
                        /\ UNCHANGED attempt
                   ELSE IF status # NetErr /\ IsClientError(status)
                   THEN /\ Return("clientError")
                        /\ UNCHANGED attempt
                   ELSE /\ Continue
                        /\ outcomes' = IF attempt + 1 < MaxRetries
                                         THEN Append(outcomes, status)
                                         ELSE <<>>
    /\ UNCHANGED <<config, apiVars, queue, done, sent,
                   offered, accepted, overflow, sendRet, lastWrite,
                   closeState, acceptedAtClose, closeCalls, panicked>>

\* ObserveDestination.sendBatch: one POST, whatever comes back.  With an
\* endpoint that does not parse, NewRequest returns a nil request and
\* req.Header.Set dereferences it.
ObserveSendAttempt(status) ==
    /\ ~panicked
    /\ dest = ObserveDestination
    /\ pc = "sendBatch"
    /\ IF ~endpointOK
         THEN /\ panicked' = TRUE
              /\ UNCHANGED <<pc, ret, batch, timer, attempt, posts, outcomes,
                             lastStatus, result>>
         ELSE /\ posts' = posts + 1
              /\ lastStatus' = status
              /\ UNCHANGED attempt
              /\ Return(IF status # NetErr /\ IsSuccess(status)
                          THEN "success" ELSE "failed")
              /\ UNCHANGED panicked
    /\ UNCHANGED <<config, apiVars, queue, done, delays,
                   sent, offered, accepted, overflow, sendRet, lastWrite,
                   closeState, acceptedAtClose, closeCalls>>

-----------------------------------------------------------------------------
(* The retry loop's sleeps in 64 bits.  A time.Duration is an int64 of     *)
(* nanoseconds, kept here as its two's complement in four 16-bit limbs,    *)
(* the most significant first; int has 64 bits as well.                    *)

Zero64 == <<0, 0, 0, 0>>
One64 == <<0, 0, 0, 1>>
Nanosecond == <<0, 0, 0, 1>>
Millisecond == <<0, 0, 15, 16960>>
Second == <<0, 0, 15258, 51712>>
\* 100 * 365 * 24 * time.Hour
Century == <<11203, 54909, 54188, 0>>

\* x + x in 64 bits
Double(x) ==
    <<(2 * x[1] + x[2] \div 32768) % 65536,
      (2 * x[2] + x[3] \div 32768) % 65536,
      (2 * x[3] + x[4] \div 32768) % 65536,
      (2 * x[4]) % 65536>>

\* x >> 1 of the bit pattern
Half(x) ==
    <<x[1] \div 2,
      x[2] \div 2 + (x[1] % 2) * 32768,
      x[3] \div 2 + (x[2] % 2) * 32768,
      x[4] \div 2 + (x[3] % 2) * 32768>>

\* x + y in 64 bits: the limbs from the least significant, with the carries
Add64(x, y) ==
    LET s4 == x[4] + y[4]
        s3 == x[3] + y[3] + s4 \div 65536
        s2 == x[2] + y[2] + s3 \div 65536
        s1 == x[1] + y[1] + s2 \div 65536
    IN  <<s1 % 65536, s2 % 65536, s3 % 65536, s4 % 65536>>

\* acc + x * y in 64 bits: x is added for every bit of y that is set, and
\* doubled from one bit to the next
RECURSIVE MulAcc(_, _, _)
MulAcc(acc, x, y) ==
    IF y = Zero64 \/ x = Zero64
      THEN acc
      ELSE LET a == IF y[4] % 2 = 1 THEN Add64(acc, x) ELSE acc
           IN  IF a = acc
                 THEN MulAcc(acc, Double(x), Half(y))
                 ELSE MulAcc(a, Double(x), Half(y))

Mul64(x, y) == MulAcc(Zero64, x, y)

\* 1 << k for an int k >= 0: zero once k reaches the width
RECURSIVE ShiftLeft(_, _)
ShiftLeft(x, k) ==
    IF k = 0 \/ x = Zero64 THEN x ELSE ShiftLeft(Double(x), k - 1)

\* (variant: the same delay before every retry)
SleepConstant(d, k) == d

\* t.options.RetryDelay * time.Duration(1<<attempt)
Sleep(d, k) == Mul64(d, ShiftLeft(One64, k))

\* the options after NewHTTPTransport's defaulting
RetryOptions(maxRetries, retryDelay) ==
    [MaxRetries |-> IF maxRetries = 0 THEN 3 ELSE maxRetries,
     RetryDelay |-> IF retryDelay = Zero64 THEN Second ELSE retryDelay,
     attempt |-> 0,
     slept |-> <<>>,
     returned |-> FALSE]

\* One iteration of the retry loop of sendBatch: the sleep when this is not
\* the first attempt, then the request, which ends the loop (a 200, a 202
\* or a 4xx) or does not.
RetryIteration(ends) ==
    /\ ~backoff.returned
    /\ backoff.attempt < backoff.MaxRetries
    /\ backoff' =
         [backoff EXCEPT
            !.slept = IF backoff.attempt > 0
                        THEN Append(@, Sleep(backoff.RetryDelay,
                                             backoff.attempt))
                        ELSE @,
            !.attempt = IF ends THEN @ ELSE @ + 1,
            !.returned = ends]
    /\ UNCHANGED <<destVars, flushVars, clientVars, lastOp, minLevel,
                   scrubVars, scopeVars, captureVars, lockVars, handed, mutexes, running>>

-----------------------------------------------------------------------------
(* The worker *)

workerFrame == <<config, apiVars, done, offered,
                 accepted, overflow, sendRet, lastWrite, closeState,
                 acceptedAtClose, closeCalls, panicked>>

sendFrame == <<attempt, posts, outcomes, delays, lastStatus, result, sent>>

\* case event := <-t.queue / case entry := <-o.queue, in the main select
WorkerReceive ==
    /\ ~panicked
    /\ pc = "select"
    /\ queue # <<>>
    /\ queue' = Tail(queue)
    /\ LET b == Append(batch, Head(queue))
       IN  IF BatchFull(b)
             THEN CallSendBatch(b, "full", timer)
             ELSE /\ batch' = b
                  /\ UNCHANGED <<pc, ret, timer>>
                  /\ UNCHANGED sendFrame
    /\ UNCHANGED workerFrame

\* case <-timer.C / case <-ticker.C: the timer expires and the worker takes
\* the value.  A Timer is idle once it has fired, until Reset; a Ticker keeps
\* ticking.
WorkerTimer ==
    /\ ~panicked
    /\ pc = "select"
    /\ timer = "armed"
    /\ LET tm == IF dest = HTTPTransport THEN "idle" ELSE "armed"
       IN  IF Len(batch) > 0
             THEN CallSendBatch(batch, "timer", tm)
             ELSE /\ timer' = "armed"
                  /\ UNCHANGED <<pc, ret, batch>>
                  /\ UNCHANGED sendFrame
    /\ UNCHANGED queue
    /\ UNCHANGED workerFrame

\* case <-t.done / case <-o.done.  HTTPTransport.worker sends what it holds
\* before it drains the queue; ObserveDestination.worker goes straight to
\* the drain loop.
WorkerDone ==
    /\ ~panicked
    /\ pc = "select"
    /\ done
    /\ IF dest = HTTPTransport /\ Len(batch) > 0
         THEN CallSendBatch(batch, "done", timer)
         ELSE /\ pc' = "drain"
              /\ UNCHANGED <<ret, batch, timer>>
              /\ UNCHANGED sendFrame
    /\ UNCHANGED queue
    /\ UNCHANGED workerFrame

\* the drain loop's receive; only HTTPTransport.worker flushes at the size
\* threshold here
DrainReceive ==
    /\ ~panicked
    /\ pc = "drain"
    /\ queue # <<>>
    /\ queue' = Tail(queue)
    /\ LET b == Append(batch, Head(queue))
       IN  IF dest = HTTPTransport /\ BatchFull(b)
             THEN CallSendBatch(b, "drain", timer)
             ELSE /\ batch' = b
                  /\ UNCHANGED <<pc, ret, timer>>
                  /\ UNCHANGED sendFrame
    /\ UNCHANGED workerFrame

\* (variant: the worker returns without draining the queue)
DrainEmptySkipped(q) == TRUE

\* the drain loop's default case is taken when the queue is empty
DrainEmpty(q) == q = <<>>

DrainDefault ==
    /\ ~panicked
    /\ pc = "drain"
    /\ DrainEmpty(queue)
    /\ IF Len(batch) > 0
         THEN CallSendBatch(batch, "exit", timer)
         ELSE /\ pc' = "exited"
              /\ timer' = "stopped"
              /\ UNCHANGED <<ret, batch>>
              /\ UNCHANGED sendFrame
    /\ UNCHANGED queue
    /\ UNCHANGED workerFrame

-----------------------------------------------------------------------------
(* The callers *)

callerFrame == <<config, pc, ret, batch, timer,
                 attempt, posts, outcomes, delays, lastStatus, result, sent>>

\* HTTPTransport.Send: a select over the send on t.queue, the receive from
\* t.done and default.  Of the cases that are ready one is taken, whichever;
\* default is taken when none is.
Send ==
    /\ ~panicked
    /\ dest = HTTPTransport
    /\ \/ /\ QueueHasRoom(queue, dest)
          /\ offered' = Count(offered)
          /\ queue' = Append(queue, NextRecord)
          /\ accepted' = Recorded(accepted, NextRecord)
          /\ sendRet' = TRUE
          /\ UNCHANGED overflow
       \/ /\ done
          /\ sendRet' = FALSE
          /\ UNCHANGED <<queue, offered, accepted, overflow>>
       \/ /\ ~QueueHasRoom(queue, dest)
          /\ ~done
          /\ offered' = Count(offered)
          /\ sendRet' = FALSE
          /\ overflow' = Count(overflow)
          /\ UNCHANGED <<queue, accepted>>
    /\ UNCHANGED <<lastWrite, done, closeState, acceptedAtClose, closeCalls,
                   panicked>>
    /\ UNCHANGED callerFrame

\* ObserveDestination.Write
Write(level, r) ==
    /\ ~panicked
    /\ dest = ObserveDestination
    /\ IF ~enabled
         THEN /\ lastWrite' = "disabled"
              /\ UNCHANGED <<queue, offered, accepted, overflow>>
         ELSE IF SampledOut(level, r)
         THEN /\ lastWrite' = "sampledOut"
              /\ UNCHANGED <<queue, offered, accepted, overflow>>
         ELSE IF QueueHasRoom(queue, dest)
         THEN /\ lastWrite' = "queued"
              /\ offered' = Count(offered)
              /\ queue' = Append(queue, NextRecord)
              /\ accepted' = Recorded(accepted, NextRecord)
              /\ UNCHANGED overflow
         ELSE /\ lastWrite' = "dropped"
              /\ offered' = Count(offered)
              /\ overflow' = Count(overflow)
              /\ UNCHANGED <<queue, accepted>>
    /\ UNCHANGED <<sendRet, done, closeState, acceptedAtClose, closeCalls,
                   panicked>>
    /\ UNCHANGED callerFrame

\* Close, up to wg.Wait(): close(t.done) / close(o.done).  Closing a closed
\* channel panics.
CloseCall ==
    /\ ~panicked
    /\ closeCalls' = closeCalls + 1
    /\ IF done
         THEN /\ panicked' = TRUE
              /\ UNCHANGED <<done, closeState, acceptedAtClose>>
         ELSE /\ done' = TRUE
              /\ closeState' = "waiting"
              /\ acceptedAtClose' = accepted
              /\ UNCHANGED panicked
    /\ UNCHANGED <<queue, offered, accepted, overflow, sendRet, lastWrite>>
    /\ UNCHANGED callerFrame

\* (variant: Close does not wait for the worker)
WorkerGoneNoWait(p) == TRUE

\* wg.Wait() returns once the worker has run its deferred wg.Done()
WorkerGone(p) == p = "exited"

CloseReturn ==
    /\ ~panicked
    /\ closeState = "waiting"
    /\ WorkerGone(pc)
    /\ closeState' = "returned"
    /\ UNCHANGED <<queue, done, offered, accepted, overflow, sendRet,
                   lastWrite, acceptedAtClose, closeCalls, panicked>>
    /\ UNCHANGED callerFrame

-----------------------------------------------------------------------------
(* Flush *)

\* (variant: the deadline is not looked at)
FlushDoneQueueOnly(q, e, to) == Len(q) = 0

\* (variant: Flush also waits for the worker's batch and its sendBatch call)
FlushDoneTransactional(q, e, to) ==
    (Len(q) = 0 /\ batch = <<>> /\ pc # "sendBatch") \/ e >= to

\* HTTPTransport.Flush's test after each time.After(100ms): the queue is
\* empty or time.Now() is after the deadline.  After e intervals of 100ms
\* a deadline of to intervals has passed when e >= to.
FlushDone(q, e, to) == Len(q) = 0 \/ e >= to

\* Flush is called.  HTTPTransport.Flush(timeout) computes its deadline and
\* waits for the first time.After; ObserveDestination.Flush() takes no
\* timeout and tests len(o.queue) at once.
FlushCall(to) ==
    /\ ~panicked
    /\ flushPc \in {"idle", "returned"}
    /\ elapsed' = 0
    /\ IF dest = HTTPTransport
         THEN /\ flushTimeout' = to
              /\ flushPc' = "sleep"
         ELSE /\ flushTimeout' = 0
              /\ flushPc' = "check"
    /\ UNCHANGED <<destVars, client, options, givenOptions, globalClient,
                   globalMu, capPc, lastOp, minLevel, scrubVars,
                   scopeVars, captureVars, lockVars, extraVars>>

\* time.After(100ms) fires / time.Sleep(100ms) returns
FlushWake ==
    /\ ~panicked
    /\ flushPc = "sleep"
    /\ flushPc' = "check"
    /\ elapsed' = IF dest = HTTPTransport THEN elapsed + 1 ELSE elapsed
    /\ UNCHANGED flushTimeout
    /\ UNCHANGED <<destVars, client, options, givenOptions, globalClient,
                   globalMu, capPc, lastOp, minLevel, scrubVars,
                   scopeVars, captureVars, lockVars, extraVars>>

\* the test of the polling loop
FlushCheck ==
    /\ ~panicked
    /\ flushPc = "check"
    /\ IF dest = HTTPTransport
         THEN flushPc' = IF FlushDone(queue, elapsed, flushTimeout)
                           THEN "returned" ELSE "sleep"
         ELSE flushPc' = IF Len(queue) > 0 THEN "sleep" ELSE "returned"
    /\ UNCHANGED <<flushTimeout, elapsed>>
    /\ UNCHANGED <<destVars, client, options, givenOptions, globalClient,
                   globalMu, capPc, lastOp, minLevel, scrubVars,
                   scopeVars, captureVars, lockVars, extraVars>>

-----------------------------------------------------------------------------
(* Scopes.  A Scope's tags is a map and its user a pointer, so two Scopes  *)
(* can refer to the same map or User; its breadcrumbs is a slice: an array,*)
(* an offset into it, a length and a capacity.  A slice of capacity 0 has  *)
(* no array.                                                               *)

\* a call of the API: its name, its arguments and what it returned
NoOp == [op |-> "none", DSN |-> "", env |-> "", client |-> Nil, err |-> Nil,
         id |-> "", level |-> 0, scope |-> 0, tick |-> 0]

Op(name) == [NoOp EXCEPT !.op = name, !.tick = 1 - lastOp.tick]

\* NewScope: maxBreadcrumbs
DefaultMaxBreadcrumbs == 100

\* what is passed to SetUser, SetTag and AddBreadcrumb
UserIDs == {"123", "456"}
TagKeys == {"key"}
TagValues == {"value", "modified"}
CrumbMessages == {"a", "b"}

\* the zero Breadcrumb
NoCrumb == ""

\* make([]Breadcrumb, 0)
NoSlice == [array |-> 0, off |-> 0, len |-> 0, cap |-> 0]

\* make(map[string]string)
NoTags == [k \in {} |-> ""]

\* the elements of the slice sl, with as the arrays
Elems(as, sl) ==
    IF sl.len = 0 THEN <<>>
                  ELSE SubSeq(as[sl.array], sl.off + 1, sl.off + sl.len)

\* n elements of an array that have not been written
RECURSIVE Blank(_)
Blank(n) == IF n = 0 THEN <<>> ELSE <<NoCrumb>> \o Blank(n - 1)

\* append(sl, x): in place when the capacity allows it, else into a new
\* array of twice the capacity
AppendSlice(as, sl, x) ==
    IF sl.len < sl.cap
      THEN [arrays |-> [as EXCEPT ![sl.array][sl.off + sl.len + 1] = x],
            slice |-> [sl EXCEPT !.len = @ + 1]]
      ELSE LET newcap == IF sl.cap = 0 THEN 1 ELSE 2 * sl.cap
               old == Elems(as, sl)
           IN  [arrays |-> Append(as, Append(old, x)
                                        \o Blank(newcap - sl.len - 1)),
                slice |-> [array |-> Len(as) + 1, off |-> 0,
                           len |-> sl.len + 1, cap |-> newcap]]

\* (variant: the oldest breadcrumbs are kept)
TrimKeepOldest(sl, max) ==
    IF sl.len > max THEN [sl EXCEPT !.len = max] ELSE sl

\* if len(s.breadcrumbs) > s.maxBreadcrumbs, the slice from
\* len(s.breadcrumbs)-s.maxBreadcrumbs on
Trim(sl, max) ==
    IF sl.len > max
      THEN [sl EXCEPT !.off = @ + (sl.len - max), !.len = max,
                      !.cap = @ - (sl.len - max)]
      ELSE sl

\* NewScope
NewScope(tags) ==
    [user |-> 0, tags |-> tags, breadcrumbs |-> NoSlice,
     maxBreadcrumbs |-> DefaultMaxBreadcrumbs]

\* m[k] = v
Put(m, k, v) ==
    [x \in DOMAIN m \cup {k} |-> IF x = k THEN v ELSE m[x]]

\* delete(m, k)
Delete(m, k) == [x \in DOMAIN m \ {k} |-> m[x]]

\* a call of a method of the Scope at address s
ScopeOp(name, s) == [Op(name) EXCEPT !.scope = s]

\* what a method of a Scope leaves alone
scopeFrame == <<destVars, flushVars, clientVars, minLevel, scrubVars,
                captureVars, lockVars, extraVars>>

\* Scope.SetUser
ScopeSetUser(s, u) ==
    /\ users' = Append(users, u)
    /\ scopes' = [scopes EXCEPT ![s].user = Len(users) + 1]
    /\ lastOp' = ScopeOp("SetUser", s)
    /\ scopeCalls' = scopeCalls + 1
    /\ UNCHANGED <<tagCells, arrays, crumbLog>>
    /\ UNCHANGED scopeFrame

\* Scope.SetTag
ScopeSetTag(s, k, v) ==
    /\ tagCells' = [tagCells EXCEPT ![scopes[s].tags] = Put(@, k, v)]
    /\ lastOp' = ScopeOp("SetTag", s)
    /\ scopeCalls' = scopeCalls + 1
    /\ UNCHANGED <<scopes, users, arrays, crumbLog>>
    /\ UNCHANGED scopeFrame

\* Scope.SetTags: s.tags[k] = v for each entry of tags
ScopeSetTags(s, tags) ==
    /\ tagCells' = [tagCells EXCEPT ![scopes[s].tags] =
                       [k \in DOMAIN @ \cup DOMAIN tags |->
                          IF k \in DOMAIN tags THEN tags[k] ELSE @[k]]]
    /\ lastOp' = ScopeOp("SetTags", s)
    /\ scopeCalls' = scopeCalls + 1
    /\ UNCHANGED <<scopes, users, arrays, crumbLog>>
    /\ UNCHANGED scopeFrame

\* Scope.RemoveTag
ScopeRemoveTag(s, k) ==
    /\ tagCells' = [tagCells EXCEPT ![scopes[s].tags] = Delete(@, k)]
    /\ lastOp' = ScopeOp("RemoveTag", s)
    /\ scopeCalls' = scopeCalls + 1
    /\ UNCHANGED <<scopes, users, arrays, crumbLog>>
    /\ UNCHANGED scopeFrame

\* Scope.AddBreadcrumb: the breadcrumb is appended and the slice trimmed
AddBreadcrumb(s, crumb) ==
    LET r == AppendSlice(arrays, scopes[s].breadcrumbs, crumb)
    IN  /\ arrays' = r.arrays
        /\ scopes' = [scopes EXCEPT ![s].breadcrumbs =
                          Trim(r.slice, scopes[s].maxBreadcrumbs)]
        /\ crumbLog' = [crumbLog EXCEPT ![s] = Append(@, crumb)]

ScopeAddBreadcrumb(s, crumb) ==
    /\ AddBreadcrumb(s, crumb)
    /\ lastOp' = ScopeOp("AddBreadcrumb", s)
    /\ scopeCalls' = scopeCalls + 1
    /\ UNCHANGED <<users, tagCells>>
    /\ UNCHANGED scopeFrame

\* Scope.Clear
ScopeClear(s) ==
    /\ tagCells' = Append(tagCells, NoTags)
    /\ scopes' = [scopes EXCEPT ![s].user = 0,
                                ![s].tags = Len(tagCells) + 1,
                                ![s].breadcrumbs = NoSlice]
    /\ crumbLog' = [crumbLog EXCEPT ![s] = <<>>]
    /\ lastOp' = ScopeOp("Clear", s)
    /\ scopeCalls' = scopeCalls + 1
    /\ UNCHANGED <<users, arrays>>
    /\ UNCHANGED scopeFrame

\* (variant: clone.tags = s.tags)
CloneTagsShared(cells, t) == [cells |-> cells, tags |-> t]

\* the map made by NewScope with the entries of s.tags stored in it
CloneTags(cells, t) ==
    [cells |-> Append(cells, cells[t]), tags |-> Len(cells) + 1]

\* clone.breadcrumbs = make([]Breadcrumb, len(s.breadcrumbs)) and copy
CloneBreadcrumbs(as, sl) ==
    IF sl.len = 0
      THEN [arrays |-> as, slice |-> NoSlice]
      ELSE [arrays |-> Append(as, Elems(as, sl)),
            slice |-> [array |-> Len(as) + 1, off |-> 0, len |-> sl.len,
                       cap |-> sl.len]]

\* Scope.Clone of the Scope at address s: the clone is at address
\* Len(scopes) + 1
Clone(s) ==
    LET t == CloneTags(tagCells, scopes[s].tags)
        b == CloneBreadcrumbs(arrays, scopes[s].breadcrumbs)
    IN  /\ tagCells' = t.cells
        /\ arrays' = b.arrays
        /\ users' = IF scopes[s].user # 0
                      THEN Append(users, users[scopes[s].user])
                      ELSE users
        /\ scopes' = Append(scopes,
                        [user |-> IF scopes[s].user # 0
                                    THEN Len(users) + 1 ELSE 0,
                         tags |-> t.tags,
                         breadcrumbs |-> b.slice,
                         maxBreadcrumbs |-> scopes[s].maxBreadcrumbs])
        /\ crumbLog' = Append(crumbLog, crumbLog[s])

ScopeClone(s) ==
    /\ Len(scopes) < MaxScopes
    /\ Clone(s)
    /\ lastOp' = ScopeOp("Clone", s)
    /\ scopeCalls' = scopeCalls + 1
    /\ UNCHANGED scopeFrame

-----------------------------------------------------------------------------
(* The client and the package-level API *)

\* the message that is captured
Messages == {"test"}

\* Options.BeforeSend: none, a callback that sets the tag custom and
\* returns the event, a callback that returns nil
BeforeSendCallbacks == {Nil, "AddTag", "Drop"}

\* NewMessageEvent: the parts of the Event that the Scope is applied to
NewMessageEvent(message) ==
    [message |-> message, user |-> Nil, tags |-> NoTags,
     breadcrumbs |-> <<>>]

\* Scope.ApplyToEvent of the Scope at address s
ApplyToEvent(s, event) ==
    [event EXCEPT
       !.user = IF scopes[s].user # 0 THEN users[scopes[s].user] ELSE @,
       !.tags = [k \in DOMAIN @ \cup DOMAIN tagCells[scopes[s].tags] |->
                   IF k \in DOMAIN tagCells[scopes[s].tags]
                     THEN tagCells[scopes[s].tags][k] ELSE @[k]],
       !.breadcrumbs = @ \o Elems(arrays, scopes[s].breadcrumbs)]

\* what the callback returns: no event for nil
BeforeSend(event) ==
    CASE beforeSend = "AddTag" ->
           <<[event EXCEPT !.tags = Put(@, "custom", "added")]>>
      [] beforeSend = "Drop" -> <<>>

\* (variant: the callback is not asked)
ToTransportUnfiltered(event) == <<event>>

\* Client.sendEvent, up to the call of transport.Send: the event that is
\* passed to the transport, or none
ToTransport(event) ==
    IF beforeSend # Nil THEN BeforeSend(event) ELSE <<event>>

\* The same in memory.  An Event holds a pointer to its EventUser, its Tags
\* map and its Breadcrumbs slice; m is the memory (users, tagCells, arrays)
\* with the event that is being built.

\* NewMessageEvent: NewEvent makes the Tags map; User and Breadcrumbs are nil
NewMessageEventAt ==
    [users |-> users, tagCells |-> Append(tagCells, NoTags), arrays |-> arrays,
     event |-> [user |-> 0, tags |-> Len(tagCells) + 1,
                breadcrumbs |-> NoSlice]]

\* event.Breadcrumbs = append(event.Breadcrumbs, ...) for each of xs
RECURSIVE AppendAll(_, _, _)
AppendAll(as, sl, xs) ==
    IF xs = <<>>
      THEN [arrays |-> as, slice |-> sl]
      ELSE LET r == AppendSlice(as, sl, Head(xs))
           IN  AppendAll(r.arrays, r.slice, Tail(xs))

\* (variant: the event refers to the Scope's user, map and slice)
ApplyToEventShared(s, m) ==
    [m EXCEPT !.event = [user |-> scopes[s].user, tags |-> scopes[s].tags,
                         breadcrumbs |-> scopes[s].breadcrumbs]]

\* Scope.ApplyToEvent of the Scope at address s: a new EventUser with the
\* fields of s.user, the entries of s.tags stored in event.Tags, and a
\* BreadcrumbValue appended to event.Breadcrumbs for each of s.breadcrumbs
ApplyToEventAt(s, m) ==
    LET sc == scopes[s]
        b == AppendAll(m.arrays, m.event.breadcrumbs,
                       Elems(m.arrays, sc.breadcrumbs))
    IN  [users |-> IF sc.user # 0 THEN Append(m.users, m.users[sc.user])
                                  ELSE m.users,
         tagCells |-> [m.tagCells EXCEPT ![m.event.tags] =
                         [k \in DOMAIN @ \cup DOMAIN m.tagCells[sc.tags] |->
                            IF k \in DOMAIN m.tagCells[sc.tags]
                              THEN m.tagCells[sc.tags][k] ELSE @[k]]],
         arrays |-> b.arrays,
         event |-> [user |-> IF sc.user # 0 THEN Len(m.users) + 1
                                            ELSE m.event.user,
                    tags |-> m.event.tags,
                    breadcrumbs |-> b.slice]]

\* Client.sendEvent, up to the call of transport.Send: the callback has
\* the pointer to the event and stores its tag in the event's map
ToTransportAt(m) ==
    CASE beforeSend = Nil -> <<m>>
      [] beforeSend = "AddTag" ->
           <<[m EXCEPT !.tagCells[m.event.tags] = Put(@, "custom", "added")]>>
      [] beforeSend = "Drop" -> <<>>

\* the event behind the pointers of e, as it is in memory now
EventAt(e) ==
    [user |-> IF e.user = 0 THEN Nil ELSE users[e.user],
     tags |-> tagCells[e.tags],
     breadcrumbs |-> Elems(arrays, e.breadcrumbs)]

\* client.scope = NewScope(); Options.MaxBreadcrumbs is left unset, which
\* makes maxBreadcrumbs 100
NewClientScope ==
    /\ tagCells' = Append(tagCells, NoTags)
    /\ scopes' = Append(scopes, NewScope(Len(tagCells) + 1))
    /\ crumbLog' = Append(crumbLog, <<>>)
    /\ clientScope' = Len(scopes) + 1
    /\ UNCHANGED <<users, arrays, scopeCalls, beforeSend, events, withScope,
                   lockVars, extraVars>>

\* (variant: NewClient does not look at the DSN)
NewClientAnyDSN(o) ==
    [client |-> "client", options |-> o, err |-> Nil]

\* NewClient: the client and the error it returns, and the options the
\* client holds.  A SampleRate of 0 is taken to be unset and becomes 1.0.
NewClient(o) ==
    IF o.DSN = ""
      THEN [client |-> Nil, options |-> NoOptions, err |-> ErrMissingDSN]
      ELSE [client |-> "client",
            options |-> [o EXCEPT !.SampleRate =
                            IF o.SampleRate = 0 THEN 1000 ELSE o.SampleRate],
            err |-> Nil]

\* NewHTTPTransport, called by NewClient: the queue and done are made and
\* the worker goroutine is started
StartTransport ==
    /\ queue' = <<>>
    /\ done' = FALSE
    /\ pc' = "select"
    /\ ret' = "none"
    /\ batch' = <<>>
    /\ timer' = "armed"
    /\ attempt' = 0
    /\ posts' = 0
    /\ outcomes' = <<>>
    /\ delays' = <<>>
    /\ lastStatus' = NetErr
    /\ result' = "none"
    /\ sent' = <<>>
    /\ offered' = 0
    /\ accepted' = <<>>
    /\ overflow' = 0
    /\ sendRet' = FALSE
    /\ lastWrite' = "none"
    /\ closeState' = "none"
    /\ acceptedAtClose' = <<>>
    /\ closeCalls' = 0
    /\ panicked' = FALSE
    /\ UNCHANGED config

\* NewClient: the transport is options.Transport when it is set, and a new
\* HTTPTransport otherwise
NewTransport ==
    IF dest = MockTransport THEN UNCHANGED destVars ELSE StartTransport

\* a caller calls NewClient(o) and keeps the client it gets.  One client
\* and one transport are modelled: no second one is made.
ClientNew(o) ==
    LET r == NewClient(o)
    IN  /\ ~panicked
        /\ r.client # Nil => client = Nil
        /\ lastOp' = [Op("NewClient") EXCEPT !.DSN = o.DSN,
                         !.client = r.client, !.err = r.err]
        /\ IF r.client # Nil
             THEN /\ client' = r.client
                  /\ options' = r.options
                  /\ givenOptions' = o
                  /\ NewTransport
                  /\ NewClientScope
             ELSE UNCHANGED <<client, options, givenOptions, destVars,
                              scopeVars, captureVars, lockVars, extraVars>>
        /\ UNCHANGED <<scrubVars, flushVars, minLevel, globalClient, globalMu,
                       capPc>>

\* Init(o), with env what loadDSNFromEnv returns.  The whole call runs with
\* globalMu held.
StatlyInit(o, env) ==
    LET dsn == IF o.DSN = "" THEN env ELSE o.DSN
        r == NewClient([o EXCEPT !.DSN = dsn])
        err == IF globalClient # Nil THEN ErrAlreadyInitialized
               ELSE IF dsn = "" THEN ErrNoDSNProvided
               ELSE r.err
    IN  /\ ~panicked
        /\ globalMu = "free"
        /\ lastOp' = [Op("Init") EXCEPT !.DSN = o.DSN, !.env = env,
                         !.err = err]
        /\ IF err = Nil
             THEN /\ client' = r.client
                  /\ options' = r.options
                  /\ givenOptions' = o
                  /\ globalClient' = r.client
                  /\ NewTransport
                  /\ NewClientScope
             ELSE UNCHANGED <<client, options, givenOptions, globalClient,
                              destVars, scopeVars, captureVars, lockVars, extraVars>>
        /\ UNCHANGED <<scrubVars, flushVars, minLevel, globalMu, capPc>>

\* (variant: sendEvent returns the ID whatever Send returned)
EventIDAlways(ok) == "EventID"

\* Client.sendEvent's return value, ok being what transport.Send returned
EventID(ok) == IF ok THEN "EventID" ELSE ""

\* Client.CaptureMessageWithContext with r the value of rand.Float64():
\* the sample rate check, the event with the client's Scope applied, then
\* sendEvent, which returns "" when BeforeSend returned nil and the
\* event's ID when transport.Send returned true
ClientCaptureMessage(r) ==
    /\ ~panicked
    /\ client # Nil
    /\ IF r > options.SampleRate
         THEN /\ lastOp' = Op("CaptureMessage")
              /\ UNCHANGED <<destVars, events>>
         ELSE \E message \in Messages :
                LET out == ToTransport(ApplyToEvent(clientScope,
                                           NewMessageEvent(message)))
                IN  IF Len(out) = 0
                      THEN /\ lastOp' = Op("CaptureMessage")
                           /\ UNCHANGED <<destVars, events>>
                      ELSE IF dest = MockTransport
                             THEN /\ events' = Append(events, out[1])
                                  /\ UNCHANGED destVars
                                  /\ lastOp' = [Op("CaptureMessage")
                                                  EXCEPT !.id = "EventID"]
                             ELSE /\ Send
                                  /\ UNCHANGED events
                                  /\ lastOp' =
                                       [Op("CaptureMessage") EXCEPT
                                          !.id = EventID(sendRet')]

\* the errors passed to CaptureException
Errors == {Nil, "boom"}

\* Client.CaptureExceptionWithContext with r the value of rand.Float64():
\* "" for a nil error, then as for a message
ClientCaptureException(err, r) ==
    /\ ~panicked
    /\ client # Nil
    /\ IF err = Nil \/ r > options.SampleRate
         THEN /\ lastOp' = Op("CaptureException")
              /\ UNCHANGED <<destVars, events>>
         ELSE LET out == ToTransport(ApplyToEvent(clientScope,
                                         NewMessageEvent(err)))
              IN  IF Len(out) = 0
                    THEN /\ lastOp' = Op("CaptureException")
                         /\ UNCHANGED <<destVars, events>>
                    ELSE IF dest = MockTransport
                           THEN /\ events' = Append(events, out[1])
                                /\ UNCHANGED destVars
                                /\ lastOp' = [Op("CaptureException")
                                                EXCEPT !.id = "EventID"]
                           ELSE /\ Send
                                /\ UNCHANGED events
                                /\ lastOp' =
                                     [Op("CaptureException") EXCEPT
                                        !.id = EventID(sendRet')]

\* the package's CaptureMessage is called: it is about to take
\* globalMu.RLock()
StatlyCaptureCall ==
    /\ ~panicked
    /\ capPc = "idle"
    /\ capPc' = "RLock"
    /\ UNCHANGED <<scrubVars, scopeVars, captureVars, lockVars, extraVars, flushVars, minLevel, client, options, givenOptions,
                   globalClient, globalMu, lastOp>>
    /\ UNCHANGED destVars

\* globalMu.RLock(); client := globalClient; globalMu.RUnlock(), and the
\* return of "" when there is no client
StatlyCaptureRLock ==
    /\ ~panicked
    /\ capPc = "RLock"
    /\ globalMu = "free"
    /\ IF globalClient = Nil
         THEN /\ capPc' = "idle"
              /\ lastOp' = Op("CaptureMessage")
         ELSE /\ capPc' = "client"
              /\ UNCHANGED lastOp
    /\ UNCHANGED <<scrubVars, scopeVars, captureVars, lockVars, extraVars, flushVars, minLevel, client, options, givenOptions,
                   globalClient, globalMu>>
    /\ UNCHANGED destVars

\* return client.CaptureMessage(message, level)
StatlyCaptureMessage(r) ==
    /\ capPc = "client"
    /\ capPc' = "idle"
    /\ ClientCaptureMessage(r)
    /\ UNCHANGED <<scrubVars, scopeVars, lockVars, extraVars, clientScope, beforeSend, withScope,
                   flushVars, minLevel, client, options, givenOptions,
                   globalClient, globalMu>>

\* the package's SetTag: client.SetTag on the installed client
StatlySetTag(k, v) ==
    /\ ~panicked
    /\ globalMu = "free"
    /\ globalClient # Nil
    /\ ScopeSetTag(clientScope, k, v)

\* Client.SetUser, SetTag, SetTags and AddBreadcrumb: the method of the
\* client's Scope, called with c.mu held.  Scope.Clear on the client's
\* Scope is open to callers inside the package only.
ClientSetUser(u) == ~panicked /\ client # Nil /\ ScopeSetUser(clientScope, u)

ClientSetTag(k, v) ==
    ~panicked /\ client # Nil /\ ScopeSetTag(clientScope, k, v)

ClientSetTags(tags) ==
    ~panicked /\ client # Nil /\ ScopeSetTags(clientScope, tags)

ClientAddBreadcrumb(crumb) ==
    ~panicked /\ client # Nil /\ ScopeAddBreadcrumb(clientScope, crumb)

ClientScopeClear == ~panicked /\ client # Nil /\ ScopeClear(clientScope)

\* Client.CaptureMessage of a client whose transport is a MockTransport,
\* with the event in memory: MockTransport.Send appends the pointer it is
\* given to its events.  events keeps each event as it was at that moment.
\* An event that BeforeSend drops is garbage, and leaves the memory.
CaptureToMock(r) ==
    /\ ~panicked
    /\ client # Nil
    /\ dest = MockTransport
    /\ IF r > options.SampleRate
         THEN /\ lastOp' = Op("CaptureMessage")
              /\ UNCHANGED <<events, handed, users, tagCells, arrays>>
         ELSE \E message \in Messages :
                LET out == ToTransportAt(ApplyToEventAt(clientScope,
                                             NewMessageEventAt))
                    val == ToTransport(ApplyToEvent(clientScope,
                                           NewMessageEvent(message)))
                IN  IF Len(out) = 0
                      THEN /\ lastOp' = Op("CaptureMessage")
                           /\ UNCHANGED <<events, handed, users, tagCells,
                                          arrays>>
                      ELSE /\ users' = out[1].users
                           /\ tagCells' = out[1].tagCells
                           /\ arrays' = out[1].arrays
                           /\ handed' = Append(handed, out[1].event)
                           /\ events' = Append(events, val[1])
                           /\ lastOp' = [Op("CaptureMessage")
                                           EXCEPT !.id = "EventID"]
    /\ UNCHANGED <<destVars, flushVars, clientVars, minLevel, scrubVars,
                   scopes, crumbLog, scopeCalls, clientScope, beforeSend,
                   withScope, lockVars, backoff, mutexes, running>>

\* the package's WithScope, up to the call of f: with a client installed,
\* f is called with a clone of the client's Scope
StatlyWithScope ==
    /\ ~panicked
    /\ globalMu = "free"
    /\ capPc = "idle"
    /\ withScope = 0
    /\ globalClient # Nil
    /\ Clone(clientScope)
    /\ withScope' = Len(scopes) + 1
    /\ lastOp' = ScopeOp("WithScope", Len(scopes) + 1)
    /\ UNCHANGED <<scopeCalls, clientScope, beforeSend, events, lockVars, extraVars>>
    /\ UNCHANGED <<destVars, flushVars, clientVars, minLevel, scrubVars>>

\* f returns, and WithScope with it
WithScopeReturn ==
    /\ withScope # 0
    /\ capPc = "idle"
    /\ withScope' = 0
    /\ lastOp' = Op("WithScopeReturn")
    /\ UNCHANGED <<scopeVars, clientScope, beforeSend, events, lockVars, extraVars>>
    /\ UNCHANGED <<destVars, flushVars, clientVars, minLevel, scrubVars>>

\* the package's Close, up to wg.Wait() in HTTPTransport.Close: it takes
\* globalMu.Lock() and, with a client installed, calls
\* globalClient.Close()
StatlyCloseCall ==
    /\ ~panicked
    /\ globalMu = "free"
    /\ IF globalClient = Nil
         THEN /\ lastOp' = Op("Close")
              /\ UNCHANGED globalMu
              /\ UNCHANGED destVars
         ELSE /\ globalMu' = "Close"
              /\ CloseCall
              /\ UNCHANGED lastOp
    /\ UNCHANGED <<scrubVars, scopeVars, captureVars, lockVars, extraVars, flushVars, minLevel, client, options, givenOptions,
                   globalClient, capPc>>

\* (variant: Close leaves the client installed)
StatlyCloseReturnKeepsClient ==
    /\ globalMu = "Close"
    /\ CloseReturn
    /\ globalMu' = "free"
    /\ lastOp' = Op("Close")
    /\ UNCHANGED <<scrubVars, scopeVars, captureVars, lockVars, extraVars,
                   flushVars, minLevel, client, options, givenOptions,
                   globalClient, capPc>>

\* globalClient.Close() returns; globalClient = nil and the deferred
\* globalMu.Unlock()
StatlyCloseReturn ==
    /\ globalMu = "Close"
    /\ CloseReturn
    /\ globalClient' = Nil
    /\ globalMu' = "free"
    /\ lastOp' = Op("Close")
    /\ UNCHANGED <<scrubVars, scopeVars, captureVars, lockVars, extraVars, flushVars, minLevel, client, options, givenOptions, capPc>>

-----------------------------------------------------------------------------
(* The Logger over its ObserveDestination *)

\* Logger.shouldLog
shouldLog(level) == level = LevelAudit \/ level >= minLevel

\* Logger.SetLevel
SetLevel(level) ==
    /\ ~panicked
    /\ minLevel' = level
    /\ lastOp' = [Op("SetLevel") EXCEPT !.level = level]
    /\ UNCHANGED <<scrubVars, scopeVars, captureVars, lockVars, extraVars, flushVars, clientVars>>
    /\ UNCHANGED destVars

\* Logger.Log(level, ...): the entry is written to the destinations when
\* shouldLog(level); r is the value of rand.Float64() in Write
Log(level, r) ==
    /\ ~panicked
    /\ lastOp' = [Op("Log") EXCEPT !.level = level]
    /\ IF shouldLog(level)
         THEN Write(level, r)
         ELSE UNCHANGED destVars
    /\ UNCHANGED <<scrubVars, scopeVars, captureVars, lockVars, extraVars, flushVars, clientVars, minLevel>>

\* Logger.Audit: the entry is written to the destinations
Audit(r) ==
    /\ lastOp' = [Op("Audit") EXCEPT !.level = LevelAudit]
    /\ Write(LevelAudit, r)
    /\ UNCHANGED <<scrubVars, scopeVars, captureVars, lockVars, extraVars, flushVars, clientVars, minLevel>>

-----------------------------------------------------------------------------
(* The Logger's methods, statement by statement, run by goroutines that    *)
(* share one Logger.  A method is the sequence of its operations on l.mu   *)
(* and of its reads and writes of the Logger's fields; of the fields only  *)
(* minLevel has its value kept.                                            *)

\* the goroutines that call the Logger
Goroutines == {"g1", "g2"}

\* the Logger's fields that its methods assign after NewLogger
Fields == {"minLevel", "context", "tags", "traceID", "spanID", "destinations"}

RLock == <<"RLock", "mu">>
RUnlock == <<"RUnlock", "mu">>
Lock == <<"Lock", "mu">>
Unlock == <<"Unlock", "mu">>
Read(f) == <<"Read", f>>
Assign(f) == <<"Write", f>>

\* Logger.createEntry, up to the entry it returns
createEntry ==
    <<RLock, Read("context"), Read("tags"), Read("traceID"), Read("spanID"),
      RUnlock>>

\* Logger.write: the range over l.destinations
write == <<Read("destinations")>>

\* Logger.shouldLog: the comparison with l.minLevel
shouldLogSteps == <<Read("minLevel")>>

\* the statements of the Logger's methods
Body(m) ==
    CASE m = "Log" -> shouldLogSteps \o createEntry \o write
      [] m = "Audit" -> createEntry \o write
      [] m = "Child" ->
           <<RLock, Read("context"), Read("tags"), RUnlock,
             Read("minLevel"), Read("destinations"), Read("traceID"),
             Read("spanID")>>
      [] m = "SetLevel" -> <<Lock, Assign("minLevel"), Unlock>>
      [] m = "GetLevel" -> <<RLock, Read("minLevel"), RUnlock>>
      [] m = "IsLevelEnabled" -> shouldLogSteps
      [] m = "SetContext" -> <<Lock, Assign("context"), Unlock>>
      [] m = "SetTag" -> <<Lock, Assign("tags"), Unlock>>
      [] m = "SetTraceID" -> <<Lock, Assign("traceID"), Unlock>>
      [] m = "SetSpanID" -> <<Lock, Assign("spanID"), Unlock>>
      [] m = "AddDestination" ->
           <<Read("destinations"), Assign("destinations")>>
      [] m = "RemoveDestination" ->
           <<Read("destinations"), Assign("destinations")>>
      [] OTHER -> <<>>

Methods ==
    {"Log", "Audit", "Child", "SetLevel", "GetLevel", "IsLevelEnabled",
     "SetContext", "SetTag", "SetTraceID", "SetSpanID", "AddDestination",
     "RemoveDestination"}

\* a goroutine that is in no method of the Logger
Idle == [op |-> "idle", pc |-> 0, level |-> LevelTrace]

\* sync.RWMutex: the goroutine that has called Lock (it holds the mutex
\* once the readers have left) and the goroutines that hold a read lock
Unlocked == [writer |-> "none", held |-> FALSE, readers |-> {}]

\* the statement that goroutine g executes next
Statement(c) ==
    IF c.op # "idle" /\ c.pc \in 1 .. Len(Body(c.op))
      THEN Body(c.op)[c.pc]
      ELSE <<"none", "none">>

\* goroutine g has executed its statement: the next one, or the return
Advance(c) ==
    IF c.pc < Len(Body(c.op)) THEN [c EXCEPT !.pc = c.pc + 1] ELSE Idle

lockFrame ==
    <<flushVars, clientVars, lastOp, scrubVars, scopeVars, captureVars,
      extraVars>>

\* goroutine g calls method m of the Logger; level is the level of a Log
\* call and the argument of SetLevel
LoggerCall(g, m, level) ==
    /\ ~panicked
    /\ calls[g] = Idle
    /\ calls' = [calls EXCEPT ![g] = [op |-> m, pc |-> 1, level |-> level]]
    /\ UNCHANGED <<mu, minLevel, lockFrame, destVars>>

\* l.mu.Lock(): the goroutine takes the writers' turn, which keeps later
\* readers out, and has the mutex when no reader holds it any more
MuLock(g) ==
    /\ Statement(calls[g]) = Lock
    /\ \/ /\ mu.writer = "none"
          /\ mu' = [mu EXCEPT !.writer = g]
          /\ UNCHANGED calls
       \/ /\ mu.writer = g
          /\ ~mu.held
          /\ mu.readers = {}
          /\ mu' = [mu EXCEPT !.held = TRUE]
          /\ calls' = [calls EXCEPT ![g] = Advance(calls[g])]
    /\ UNCHANGED <<minLevel, lockFrame, destVars>>

\* l.mu.Unlock()
MuUnlock(g) ==
    /\ Statement(calls[g]) = Unlock
    /\ mu' = [mu EXCEPT !.writer = "none", !.held = FALSE]
    /\ calls' = [calls EXCEPT ![g] = Advance(calls[g])]
    /\ UNCHANGED <<minLevel, lockFrame, destVars>>

\* l.mu.RLock(): blocks while a writer holds the mutex or waits for it
MuRLock(g) ==
    /\ Statement(calls[g]) = RLock
    /\ mu.writer = "none"
    /\ mu' = [mu EXCEPT !.readers = mu.readers \cup {g}]
    /\ calls' = [calls EXCEPT ![g] = Advance(calls[g])]
    /\ UNCHANGED <<minLevel, lockFrame, destVars>>

\* l.mu.RUnlock()
MuRUnlock(g) ==
    /\ Statement(calls[g]) = RUnlock
    /\ mu' = [mu EXCEPT !.readers = mu.readers \ {g}]
    /\ calls' = [calls EXCEPT ![g] = Advance(calls[g])]
    /\ UNCHANGED <<minLevel, lockFrame, destVars>>

\* a read of a field.  The read of l.minLevel in shouldLog decides whether
\* Log goes on; the read of l.destinations in write is followed by
\* dest.Write(entry), where r is the value of rand.Float64().
ReadField(g, r) ==
    /\ ~panicked
    /\ Statement(calls[g])[1] = "Read"
    /\ LET c == calls[g]
       IN  /\ calls' = [calls EXCEPT ![g] =
                          IF /\ c.op = "Log"
                             /\ Statement(c) = Read("minLevel")
                             /\ ~shouldLog(c.level)
                            THEN Idle
                            ELSE Advance(c)]
           /\ IF c.op \in {"Log", "Audit"} /\ c.pc = Len(Body(c.op))
                THEN Write(IF c.op = "Audit" THEN LevelAudit ELSE c.level, r)
                ELSE UNCHANGED destVars
    /\ UNCHANGED <<mu, minLevel, lockFrame>>

\* an assignment to a field
WriteField(g) ==
    /\ Statement(calls[g])[1] = "Write"
    /\ minLevel' = IF Statement(calls[g]) = Assign("minLevel")
                     THEN calls[g].level
                     ELSE minLevel
    /\ calls' = [calls EXCEPT ![g] = Advance(calls[g])]
    /\ UNCHANGED <<mu, lockFrame, destVars>>

-----------------------------------------------------------------------------
(* The client's locks, statement by statement.  The methods of the client  *)
(* and of the package take globalMu, Client.mu and the mu of the client's  *)
(* Scope; a call is the sequence of its lock operations, its accesses of   *)
(* the Scope, the user callback it calls and its call of transport.Send.   *)
(* A callback may call SetTag.                                             *)

\* the goroutines that call the client
ClientCallers == 1 .. MaxCallers

Mutexes == {"globalMu", "c.mu", "s.mu"}

\* a sync.RWMutex that nobody holds or waits for: writer is the goroutine
\* that has called Lock, 0 for none
Free == [writer |-> 0, held |-> FALSE, readers |-> {}]

\* Scope.SetUser, SetTag, SetTags, SetExtra, AddBreadcrumb
scopeSet == <<<<"Lock", "s.mu">>, <<"Write", "scope">>, <<"Unlock", "s.mu">>>>

\* Client.SetUser, SetTag, SetTags, SetExtra, AddBreadcrumb
clientSet == <<<<"Lock", "c.mu">>>> \o scopeSet \o <<<<"Unlock", "c.mu">>>>

\* client := globalClient under globalMu.RLock()
getClient ==
    <<<<"RLock", "globalMu">>, <<"Read", "globalClient">>,
      <<"RUnlock", "globalMu">>>>

\* the user's callback; when nested it calls the package's SetTag
callback(name, nested) ==
    <<<<"Callback", name>>>>
      \o (IF nested THEN getClient \o clientSet ELSE <<>>)
      \o <<<<"Return", name>>>>

\* Scope.ApplyToEvent and Scope.Clone
scopeRead ==
    <<<<"RLock", "s.mu">>, <<"Read", "scope">>, <<"RUnlock", "s.mu">>>>

\* Client.sendEvent
sendEvent(nested) ==
    callback("BeforeSend", nested) \o <<<<"Send", "transport">>>>

\* (variant: the Scope is applied and the event sent with c.mu held)
CaptureHoldingLock(nested) ==
    <<<<"RLock", "c.mu">>>> \o scopeRead \o sendEvent(nested)
      \o <<<<"RUnlock", "c.mu">>>>

\* Client.CaptureMessageWithContext and CaptureExceptionWithContext
Capture(nested) ==
    <<<<"RLock", "c.mu">>>> \o scopeRead \o <<<<"RUnlock", "c.mu">>>>
      \o sendEvent(nested)

\* the statements of the client's and the package's methods
ClientBody(m, nested) ==
    CASE m \in {"SetUser", "SetTag", "SetTags", "SetExtra", "AddBreadcrumb"}
           -> clientSet
      [] m \in {"CaptureMessage", "CaptureException"} -> Capture(nested)
      [] m = "CurrentScope" -> getClient \o scopeRead
      [] m = "WithScope" -> getClient \o scopeRead \o callback("f", nested)
      [] OTHER -> <<>>

ClientMethods ==
    {"SetUser", "SetTag", "SetTags", "SetExtra", "AddBreadcrumb",
     "CaptureMessage", "CaptureException", "CurrentScope", "WithScope"}

\* a goroutine that is in no call of the client
NotRunning == [op |-> "idle", pc |-> 0, nested |-> FALSE]

\* the statement that a goroutine executes next
ClientStatement(c) ==
    IF c.op # "idle" /\ c.pc \in 1 .. Len(ClientBody(c.op, c.nested))
      THEN ClientBody(c.op, c.nested)[c.pc]
      ELSE <<"none", "none">>

\* the goroutine has executed its statement: the next one, or the return
ClientAdvance(c) ==
    IF c.pc < Len(ClientBody(c.op, c.nested))
      THEN [c EXCEPT !.pc = c.pc + 1]
      ELSE NotRunning

clientLockFrame ==
    <<destVars, flushVars, clientVars, lastOp, minLevel, scrubVars,
      scopeVars, captureVars, lockVars, backoff, handed>>

\* goroutine g calls method m; only the methods with a callback are nested
ClientCall(g, m, nested) ==
    /\ running[g] = NotRunning
    /\ nested => m \in {"CaptureMessage", "CaptureException", "WithScope"}
    /\ running' = [running EXCEPT ![g] = [op |-> m, pc |-> 1,
                                          nested |-> nested]]
    /\ UNCHANGED <<mutexes, clientLockFrame>>

\* Lock() of a sync.RWMutex: the goroutine takes the writers' turn, which
\* keeps later readers out, and has the mutex when no reader holds it
ClientLock(g) ==
    LET st == ClientStatement(running[g])
        x == st[2]
    IN  /\ st[1] = "Lock"
        /\ \/ /\ mutexes[x].writer = 0
              /\ mutexes' = [mutexes EXCEPT ![x].writer = g]
              /\ UNCHANGED running
           \/ /\ mutexes[x].writer = g
              /\ ~mutexes[x].held
              /\ mutexes[x].readers = {}
              /\ mutexes' = [mutexes EXCEPT ![x].held = TRUE]
              /\ running' = [running EXCEPT ![g] = ClientAdvance(@)]
        /\ UNCHANGED clientLockFrame

\* Unlock()
ClientUnlock(g) ==
    LET st == ClientStatement(running[g])
    IN  /\ st[1] = "Unlock"
        /\ mutexes' = [mutexes EXCEPT ![st[2]] = Free]
        /\ running' = [running EXCEPT ![g] = ClientAdvance(@)]
        /\ UNCHANGED clientLockFrame

\* RLock(): blocks while a writer holds the mutex or waits for it
ClientRLock(g) ==
    LET st == ClientStatement(running[g])
    IN  /\ st[1] = "RLock"
        /\ mutexes[st[2]].writer = 0
        /\ mutexes' = [mutexes EXCEPT ![st[2]].readers = @ \cup {g}]
        /\ running' = [running EXCEPT ![g] = ClientAdvance(@)]
        /\ UNCHANGED clientLockFrame

\* RUnlock()
ClientRUnlock(g) ==
    LET st == ClientStatement(running[g])
    IN  /\ st[1] = "RUnlock"
        /\ mutexes' = [mutexes EXCEPT ![st[2]].readers = @ \ {g}]
        /\ running' = [running EXCEPT ![g] = ClientAdvance(@)]
        /\ UNCHANGED clientLockFrame

\* any other statement: an access of the Scope or of globalClient, the
\* call and the return of a callback, transport.Send
ClientOther(g) ==
    /\ ClientStatement(running[g])[1]
          \in {"Read", "Write", "Callback", "Return", "Send"}
    /\ running' = [running EXCEPT ![g] = ClientAdvance(@)]
    /\ UNCHANGED <<mutexes, clientLockFrame>>

\* a step of goroutine g inside its call
ClientStep(g) ==
    \/ ClientLock(g)
    \/ ClientUnlock(g)
    \/ ClientRLock(g)
    \/ ClientRUnlock(g)
    \/ ClientOther(g)

-----------------------------------------------------------------------------
(* The Scrubber.  A value (interface{}) is a record: kind says what it is, *)
(* str holds a string or a scalar, keys and items the entries of a map,    *)
(* items the elements of a list.                                           *)

REDACTED == "[REDACTED]"

SensitiveKeys ==
    {"password", "passwd", "pwd", "secret", "api_key", "apikey", "api-key",
     "token", "access_token", "accesstoken", "refresh_token", "auth",
     "authorization", "bearer", "credential", "credentials", "private_key",
     "privatekey", "private-key", "secret_key", "secretkey", "secret-key",
     "session_id", "sessionid", "session-id", "session", "cookie",
     "x-api-key", "x-auth-token", "x-access-token"}

\* the keys of the maps that are scrubbed
Keys == {"Password", "token", "debug"}

\* strings.ToLower on the keys that occur
ToLower(k) ==
    CASE k = "Password" -> "password"
      [] k = "Token" -> "token"
      [] k = "Debug" -> "debug"
      [] OTHER -> k

\* the strings that occur; the built-in pattern "password" matches the
\* whole of the second one
PlainString == "hello"
SecretString == "password=hunter2"

NoValue == [kind |-> "none", str |-> "", keys |-> <<>>, items |-> <<>>]
Null == [NoValue EXCEPT !.kind = "null"]
Scalar == [NoValue EXCEPT !.kind = "scalar", !.str = "42"]
Str(x) == [NoValue EXCEPT !.kind = "string", !.str = x]
List(xs) == [NoValue EXCEPT !.kind = "list", !.items = xs]
Map(ks, xs) == [NoValue EXCEPT !.kind = "map", !.keys = ks, !.items = xs]

Leaves == {Null, Scalar, Str(PlainString), Str(SecretString)}

KeyPairs == {<<"Password", "debug">>, <<"debug", "token">>,
             <<"Password", "token">>}

\* the values nested at most d deep: lists and maps of at most one entry,
\* and maps of two leaves
RECURSIVE Values(_)
Values(d) ==
    IF d = 0
      THEN Leaves
      ELSE LET V == Values(d - 1)
           IN  Leaves \cup {List(<<>>), Map(<<>>, <<>>)}
                 \cup {List(<<x>>) : x \in V}
                 \cup {Map(<<k>>, <<x>>) : k \in Keys, x \in V}
                 \cup {Map(ks, <<x, y>>) : ks \in KeyPairs, x \in Leaves,
                                           y \in Leaves}

\* config.Allowlist
AllowlistConfigs == SUBSET {"Token", "debug"}

\* NewScrubber: the allowlist holds the keys of config.Allowlist in lower
\* case
NewScrubber(isEnabled, keys) ==
    [enabled |-> isEnabled, allowlist |-> {ToLower(k) : k \in keys}]

\* Scrubber.scrubString: every match of a pattern is replaced
scrubString(x) == IF x = SecretString THEN REDACTED ELSE x

\* Scrubber.isSensitiveKey
isSensitiveKey(key) == ToLower(key) \in SensitiveKeys

\* Scrubber.scrubValue
RECURSIVE scrubValue(_, _)
scrubValue(v, key) ==
    IF key # "" /\ ToLower(key) \in scrubber.allowlist
      THEN v
    ELSE IF key # "" /\ isSensitiveKey(key)
      THEN Str(REDACTED)
    ELSE CASE v.kind = "null" -> Null
           [] v.kind = "string" -> Str(scrubString(v.str))
           [] v.kind = "list" ->
                List([i \in 1 .. Len(v.items) |-> scrubValue(v.items[i], "")])
           [] v.kind = "map" ->
                Map(v.keys, [i \in 1 .. Len(v.items) |->
                                scrubValue(v.items[i], v.keys[i])])
           [] OTHER -> v

\* Scrubber.Scrub
Scrub(v) == IF ~scrubber.enabled THEN v ELSE scrubValue(v, "")

(* The same code on the memory of the program.  A string, nil or a scalar  *)
(* is held by value; a map or a slice is held by the address of its cell,  *)
(* so two interface{} values can share a cell.  A cell holds the entries   *)
(* in the order in which they are ranged over.                             *)

Word(k, x, a) == [kind |-> k, str |-> x, addr |-> a]
NoWord == Word("none", "", 0)

\* the memory h with the value v built in it, and the word that holds v
RECURSIVE Alloc(_, _)
RECURSIVE AllocItems(_, _)
Alloc(h, v) ==
    IF v.kind \in {"list", "map"}
      THEN LET r == AllocItems(h, v.items)
           IN  [heap |-> Append(r.heap, [keys |-> v.keys, items |-> r.items]),
                val |-> Word(v.kind, "", Len(r.heap) + 1)]
      ELSE [heap |-> h, val |-> Word(v.kind, v.str, 0)]

AllocItems(h, xs) ==
    IF Len(xs) = 0
      THEN [heap |-> h, items |-> <<>>]
      ELSE LET a == Alloc(h, Head(xs))
               b == AllocItems(a.heap, Tail(xs))
           IN  [heap |-> b.heap, items |-> <<a.val>> \o b.items]

\* the value that the word w holds in the memory h
RECURSIVE Load(_, _)
Load(h, w) ==
    IF w.kind \in {"list", "map"}
      THEN [kind |-> w.kind, str |-> "", keys |-> h[w.addr].keys,
            items |-> [i \in 1 .. Len(h[w.addr].items) |->
                          Load(h, h[w.addr].items[i])]]
      ELSE [kind |-> w.kind, str |-> w.str, keys |-> <<>>, items |-> <<>>]

\* result := v, the slice or map itself instead of a new one
MakeAlias(h, w) == [heap |-> h, addr |-> w.addr]

\* result := make([]interface{}, len(v)) / make(map[string]interface{})
Make(h, w) ==
    [heap |-> Append(h, [keys |-> <<>>,
                         items |-> IF w.kind = "list"
                                     THEN [i \in 1 .. Len(h[w.addr].items)
                                              |-> Word("null", "", 0)]
                                     ELSE <<>>]),
     addr |-> Len(h) + 1]

\* result[i] = x on the slice at address a
SetIndex(h, a, i, x) == [h EXCEPT ![a].items[i] = x]

\* result[k] = x on the map at address a
SetKey(h, a, k, x) ==
    IF \E j \in 1 .. Len(h[a].keys) : h[a].keys[j] = k
      THEN LET j == CHOOSE n \in 1 .. Len(h[a].keys) : h[a].keys[n] = k
           IN  [h EXCEPT ![a].items[j] = x]
      ELSE [h EXCEPT ![a].keys = Append(@, k), ![a].items = Append(@, x)]

\* Scrubber.scrubValue on the memory h: the memory afterwards and the word
\* returned
RECURSIVE scrubValueAt(_, _, _)
RECURSIVE scrubItemsAt(_, _, _, _)
scrubValueAt(h, w, key) ==
    IF key # "" /\ ToLower(key) \in scrubber.allowlist
      THEN [heap |-> h, val |-> w]
    ELSE IF key # "" /\ isSensitiveKey(key)
      THEN [heap |-> h, val |-> Word("string", REDACTED, 0)]
    ELSE CASE w.kind = "null" -> [heap |-> h, val |-> Word("null", "", 0)]
           [] w.kind = "string" ->
                [heap |-> h, val |-> Word("string", scrubString(w.str), 0)]
           [] w.kind \in {"list", "map"} ->
                LET m == Make(h, w)
                IN  [heap |-> scrubItemsAt(m.heap, w, m.addr, 1),
                     val |-> Word(w.kind, "", m.addr)]
           [] OTHER -> [heap |-> h, val |-> w]

\* the loop over the entries of w from the i-th on, storing into the new cell res
scrubItemsAt(h, w, res, i) ==
    IF i > Len(h[w.addr].items)
      THEN h
      ELSE LET k == IF w.kind = "map" THEN h[w.addr].keys[i] ELSE ""
               r == scrubValueAt(h, h[w.addr].items[i], k)
           IN  scrubItemsAt(IF w.kind = "map"
                              THEN SetKey(r.heap, res, k, r.val)
                              ELSE SetIndex(r.heap, res, i, r.val),
                            w, res, i + 1)

\* Scrubber.Scrub on the memory h
ScrubAt(h, w) ==
    IF ~scrubber.enabled THEN [heap |-> h, val |-> w]
                         ELSE scrubValueAt(h, w, "")

\* a caller passes value to Scrub
ScrubCall ==
    /\ scrubbed = NoValue
    /\ scrubbed' = Scrub(value)
    /\ LET r == ScrubAt(memory, valueRef)
       IN  /\ memory' = r.heap
           /\ resultRef' = r.val
    /\ UNCHANGED <<scrubber, value, valueRef, patterns, texts>>
    /\ UNCHANGED <<destVars, flushVars, clientVars, lastOp, minLevel,
                   scopeVars, captureVars, lockVars, extraVars>>

(* ScrubString.  A string is the sequence of its characters, and a      *)
(* pattern is modelled by where it matches: Match gives the end of the    *)
(* match that starts at a position, as the regular expression finds it.   *)

\* the characters that occur in the strings
Chars == {"p", "w", "d", "=", "x", " ", "[", "]", "R", "E", "D", "A", "C", "T"}

\* REDACTED, character by character
RedactedChars == <<"[", "R", "E", "D", "A", "C", "T", "E", "D", "]">>

\* the pieces that the strings passed to ScrubString are made of
Pieces == {<<"p", "w", "d", "=">>, <<"x", "x", "x">>, <<"x">>, <<" ">>,
           <<"R", "E", "D">>}

RECURSIVE Strings(_)
Strings(n) ==
    IF n = 0 THEN {<<>>}
             ELSE Strings(n - 1)
                    \cup {x \o y : x \in Strings(n - 1), y \in Pieces}

\* the names of defaultPatterns, in their order
defaultPatterns ==
    <<"apiKey", "password", "token", "creditCard", "ssn", "awsKey",
      "privateKey", "jwt">>

\* config.Patterns: none, one name, or names in another order
PatternConfigs == {<<>>, <<"password">>, <<"email", "ssn">>}

\* config.CustomRegexps: none, [A-Z]+ or x+
CustomRegexps == {<<>>, <<"[A-Z]+">>, <<"x+">>}

\* NewScrubber: the patterns named (the default ones if none is named),
\* then the custom ones
NewPatterns(names, custom) ==
    (IF Len(names) = 0 THEN defaultPatterns ELSE names) \o custom

\* the first position from i on whose character is not in the class
RECURSIVE RunEnd(_, _, _)
RunEnd(x, i, class) ==
    IF i <= Len(x) /\ x[i] \in class THEN RunEnd(x, i + 1, class) ELSE i

\* (?i): the lower-case letter of a character that occurs
FoldCase(c) ==
    CASE c = "D" -> "d"
      [] c = "R" -> "r"
      [] c = "E" -> "e"
      [] c = "A" -> "a"
      [] c = "C" -> "c"
      [] c = "T" -> "t"
      [] OTHER -> c

\* the word, without regard to case, is at position i of x
WordAt(x, i, word) ==
    /\ i + Len(word) - 1 <= Len(x)
    /\ \A j \in 1 .. Len(word) : FoldCase(x[i + j - 1]) = word[j]

\* (?:password|passwd|pwd|secret)
PasswordWords ==
    {<<"p", "a", "s", "s", "w", "o", "r", "d">>,
     <<"p", "a", "s", "s", "w", "d">>,
     <<"p", "w", "d">>,
     <<"s", "e", "c", "r", "e", "t">>}

Quotes == {"\"", "'"}
Spaces == {" "}

\* scrubPatterns["password"]:
\* (?i)(?:password|passwd|pwd|secret)\s*[=:]\s*["']?([^"'\s]{3,})["']?
\* the end of its match at position i, or 0
MatchPassword(x, i) ==
    IF \E word \in PasswordWords : WordAt(x, i, word)
      THEN LET word == CHOOSE w \in PasswordWords : WordAt(x, i, w)
               sep == RunEnd(x, i + Len(word), Spaces)
           IN  IF sep <= Len(x) /\ x[sep] \in {"=", ":"}
                 THEN LET q == RunEnd(x, sep + 1, Spaces)
                          from == IF q <= Len(x) /\ x[q] \in Quotes
                                    THEN q + 1 ELSE q
                          to == RunEnd(x, from, Chars \ (Quotes \cup Spaces))
                      IN  IF to - from >= 3
                            THEN IF to <= Len(x) /\ x[to] \in Quotes
                                   THEN to + 1 ELSE to
                            ELSE 0
                 ELSE 0
      ELSE 0

\* the end of the match of one or more characters of the class, or 0
MatchRun(x, i, class) ==
    IF RunEnd(x, i, class) > i THEN RunEnd(x, i, class) ELSE 0

\* the end of the match of pattern p at position i of x, or 0.  Every
\* other built-in pattern needs a character that is not in Chars.
Match(p, x, i) ==
    CASE p = "password" -> MatchPassword(x, i)
      [] p = "[A-Z]+" -> MatchRun(x, i, {"R", "E", "D", "A", "C", "T"})
      [] p = "x+" -> MatchRun(x, i, {"x"})
      [] OTHER -> 0

\* p.ReplaceAllString(x, REDACTED), from position i on
RECURSIVE ReplaceAllString(_, _, _)
ReplaceAllString(p, x, i) ==
    IF i > Len(x)
      THEN <<>>
      ELSE IF Match(p, x, i) > 0
             THEN RedactedChars \o ReplaceAllString(p, x, Match(p, x, i))
             ELSE <<x[i]>> \o ReplaceAllString(p, x, i + 1)

\* the loop over s.patterns from the n-th on
RECURSIVE ApplyPatterns(_, _)
ApplyPatterns(x, n) ==
    IF n > Len(patterns)
      THEN x
      ELSE ApplyPatterns(ReplaceAllString(patterns[n], x, 1), n + 1)

\* Scrubber.ScrubString
ScrubString(x) == IF ~scrubber.enabled THEN x ELSE ApplyPatterns(x, 1)

\* a caller passes to ScrubString the string it got last
ScrubStringCall ==
    /\ Len(texts) \in 1 .. 2
    /\ texts' = Append(texts, ScrubString(texts[Len(texts)]))
    /\ UNCHANGED <<scrubber, value, scrubbed, memory, valueRef, resultRef,
                   patterns>>
    /\ UNCHANGED <<destVars, flushVars, clientVars, lastOp, minLevel,
                   scopeVars, captureVars, lockVars, extraVars>>

-----------------------------------------------------------------------------
(* The state after NewHTTPTransport / NewObserveDestination *)

\* no Scope has been made
NoScope ==
    /\ scopes = <<>>
    /\ users = <<>>
    /\ tagCells = <<>>
    /\ arrays = <<>>
    /\ crumbLog = <<>>
    /\ scopeCalls = 0

\* the retry loop with the default options, not entered
NoRetryLoop == backoff = RetryOptions(0, Zero64)

\* no event has been handed to a MockTransport
NoEvents == handed = <<>>

\* no goroutine is in a call of the client
NoCalls ==
    /\ mutexes = [x \in Mutexes |-> Free]
    /\ running = [g \in ClientCallers |-> NotRunning]

\* no goroutine is in a method of the Logger
NoLocking ==
    /\ mu = Unlocked
    /\ calls = [g \in Goroutines |-> Idle]

\* no event has been captured
NoCapture ==
    /\ clientScope = 0
    /\ beforeSend = Nil
    /\ events = <<>>
    /\ withScope = 0

\* the Scrubber is not looked at
NoScrub ==
    /\ scrubber = NewScrubber(TRUE, {})
    /\ value = NoValue
    /\ scrubbed = NoValue
    /\ memory = <<>>
    /\ valueRef = NoWord
    /\ resultRef = NoWord
    /\ patterns = <<>>
    /\ texts = <<>>

\* no Client has been made and the package has not been initialized
NoClient ==
    /\ client = Nil
    /\ options = NoOptions
    /\ givenOptions = NoOptions
    /\ globalClient = Nil
    /\ globalMu = "free"
    /\ capPc = "idle"
    /\ lastOp = NoOp
    /\ minLevel = LevelTrace

InitState ==
    /\ queue = <<>>
    /\ done = FALSE
    /\ pc = "select"
    /\ ret = "none"
    /\ batch = <<>>
    /\ timer = "armed"
    /\ attempt = 0
    /\ posts = 0
    /\ outcomes = <<>>
    /\ delays = <<>>
    /\ lastStatus = NetErr
    /\ result = "none"
    /\ sent = <<>>
    /\ offered = 0
    /\ accepted = <<>>
    /\ overflow = 0
    /\ sendRet = FALSE
    /\ lastWrite = "none"
    /\ closeState = "none"
    /\ acceptedAtClose = <<>>
    /\ closeCalls = 0
    /\ panicked = FALSE

\* nobody has called Flush
NoFlush ==
    /\ flushPc = "idle"
    /\ flushTimeout = 0
    /\ elapsed = 0

Init ==
    /\ dest \in {HTTPTransport, ObserveDestination}
    /\ endpointOK \in BOOLEAN
    /\ enabled \in (IF dest = HTTPTransport THEN {TRUE} ELSE BOOLEAN)
    /\ batchSize \in 1 .. MaxBatchSize
    /\ sampling = defaultSampling
    /\ recording = TRUE
    /\ InitState
    /\ NoFlush
    /\ NoClient
    /\ NoScrub
    /\ NoScope
    /\ NoCapture
    /\ NoLocking
    /\ NoRetryLoop
    /\ NoEvents
    /\ NoCalls

\* the callers: at most MaxOffers records are offered and Close is called at
\* most MaxCloseCalls times
Callers ==
    \/ offered < MaxOffers /\ Send /\ UNCHANGED apiVars
    \/ /\ offered < MaxOffers
       /\ \E level \in Levels, r \in Draws : Write(level, r)
       /\ UNCHANGED apiVars
    \/ closeCalls < MaxCloseCalls /\ CloseCall /\ UNCHANGED apiVars
    \/ CloseReturn /\ UNCHANGED apiVars

Worker ==
    \/ WorkerReceive
    \/ WorkerTimer
    \/ WorkerDone
    \/ DrainReceive
    \/ DrainDefault
    \/ \E status \in Responses : HTTPSendAttempt(status)
    \/ \E status \in Responses : ObserveSendAttempt(status)

Next == Callers \/ Worker

Spec == Init /\ [][Next]_vars

TypeOK ==
    /\ Len(queue) <= QueueCap(dest)
    /\ pc \in {"unstarted", "select", "drain", "sendBatch", "exited"}
    /\ timer \in {"armed", "idle", "stopped"}
    /\ attempt \in 0 .. MaxRetries
    /\ posts \in 0 .. MaxRetries

-----------------------------------------------------------------------------
(* A burst of 2B+3 records against a batch-size threshold B: the records   *)
(* are offered no faster than the queue takes them, the server answers,    *)
(* and the flush timer expires only once the worker has taken every record *)
(* of the burst off the queue.  Close may be called at any moment.         *)

\* the threshold B of the burst
BurstBatchSize == 4

BurstRecords == 2 * BurstBatchSize + 3

\* number of records the worker has taken off the queue
Consumed == Len(accepted) - Len(queue)

InitBurst ==
    /\ dest \in {HTTPTransport, ObserveDestination}
    /\ endpointOK = TRUE
    /\ enabled = TRUE
    /\ batchSize = BurstBatchSize
    /\ sampling = defaultSampling
    /\ recording = TRUE
    /\ InitState
    /\ NoFlush
    /\ NoClient
    /\ NoScrub
    /\ NoScope
    /\ NoCapture
    /\ NoLocking
    /\ NoRetryLoop
    /\ NoEvents
    /\ NoCalls

NextBurst ==
    \/ /\ offered < BurstRecords /\ QueueHasRoom(queue, dest)
       /\ Send
       /\ UNCHANGED apiVars
    \/ /\ offered < BurstRecords /\ QueueHasRoom(queue, dest)
       /\ \E level \in Levels, r \in Draws : Write(level, r)
       /\ UNCHANGED apiVars
    \/ ~done /\ CloseCall /\ UNCHANGED apiVars
    \/ CloseReturn /\ UNCHANGED apiVars
    \/ WorkerReceive
    \/ Consumed = BurstRecords /\ WorkerTimer
    \/ WorkerDone
    \/ DrainReceive
    \/ DrainDefault
    \/ \E status \in Responses : HTTPSendAttempt(status)
    \/ \E status \in Responses : ObserveSendAttempt(status)

SpecBurst == InitBurst /\ [][NextBurst]_vars

-----------------------------------------------------------------------------
(* Close against producers that never stop.  The history variables are     *)
(* off, so that the states are finitely many though Send is called for     *)
(* ever.  The worker goroutine is scheduled whenever it can run, every     *)
(* case of its selects that stays ready is taken in the end (a select      *)
(* picks among its ready cases at random), every HTTP attempt completes,   *)
(* and wg.Wait() returns once the worker is gone.                          *)

InitLive ==
    /\ dest = HTTPTransport
    /\ endpointOK \in BOOLEAN
    /\ enabled = TRUE
    /\ batchSize \in 1 .. MaxBatchSize
    /\ sampling = defaultSampling
    /\ recording = FALSE
    /\ InitState
    /\ NoFlush
    /\ NoClient
    /\ NoScrub
    /\ NoScope
    /\ NoCapture
    /\ NoLocking
    /\ NoRetryLoop
    /\ NoEvents
    /\ NoCalls

NextLive ==
    \/ Send /\ UNCHANGED apiVars
    \/ ~done /\ CloseCall /\ UNCHANGED apiVars
    \/ CloseReturn /\ UNCHANGED apiVars
    \/ WorkerReceive
    \/ WorkerTimer
    \/ WorkerDone
    \/ DrainReceive
    \/ DrainDefault
    \/ \E status \in Responses : HTTPSendAttempt(status)

WorkerFair ==
    /\ SF_vars(WorkerReceive)
    /\ SF_vars(WorkerTimer)
    /\ SF_vars(WorkerDone)
    /\ SF_vars(DrainReceive)
    /\ SF_vars(DrainDefault)
    /\ WF_vars(\E status \in Responses : HTTPSendAttempt(status))
    /\ WF_vars(\E status \in Responses : ObserveSendAttempt(status))

CloseFair == WF_vars(CloseReturn /\ UNCHANGED apiVars)

SpecLive == InitLive /\ [][NextLive]_vars /\ WorkerFair /\ CloseFair

-----------------------------------------------------------------------------
(* One call of Flush next to the producers, the worker and one Close.      *)
(* The worker goroutine and the goroutine in Flush are scheduled whenever  *)
(* they can run, their timers fire and every HTTP attempt completes.       *)

InitFlush ==
    /\ dest \in {HTTPTransport, ObserveDestination}
    /\ endpointOK = TRUE
    /\ enabled = TRUE
    /\ batchSize \in 1 .. MaxBatchSize
    /\ sampling = defaultSampling
    /\ recording = TRUE
    /\ InitState
    /\ NoFlush
    /\ NoClient
    /\ NoScrub
    /\ NoScope
    /\ NoCapture
    /\ NoLocking
    /\ NoRetryLoop
    /\ NoEvents
    /\ NoCalls

NextFlush ==
    \/ offered < FlushOffers /\ Send /\ UNCHANGED apiVars
    \/ /\ offered < FlushOffers
       /\ \E level \in Levels, r \in Draws : Write(level, r)
       /\ UNCHANGED apiVars
    \/ ~done /\ CloseCall /\ UNCHANGED apiVars
    \/ CloseReturn /\ UNCHANGED apiVars
    \/ flushPc = "idle" /\ \E to \in 0 .. MaxFlushTimeout : FlushCall(to)
    \/ FlushWake
    \/ FlushCheck
    \/ Worker

FlushFair == WF_vars(FlushWake) /\ WF_vars(FlushCheck)

SpecFlush ==
    InitFlush /\ [][NextFlush]_vars /\ WF_vars(Worker) /\ CloseFair /\ FlushFair

-----------------------------------------------------------------------------
(* Batches that fail.  The producers, one Close and the worker, against a  *)
(* server that answers whatever it likes, behind an endpoint that parses   *)
(* or does not.  The worker goroutine is scheduled whenever it can run,    *)
(* its timer fires and every HTTP attempt completes.                       *)

InitFailure ==
    /\ dest \in {HTTPTransport, ObserveDestination}
    /\ endpointOK \in BOOLEAN
    /\ enabled = TRUE
    /\ batchSize \in 1 .. MaxBatchSize
    /\ sampling = defaultSampling
    /\ recording = TRUE
    /\ InitState
    /\ NoFlush
    /\ NoClient
    /\ NoScrub
    /\ NoScope
    /\ NoCapture
    /\ NoLocking
    /\ NoRetryLoop
    /\ NoEvents
    /\ NoCalls

NextFailure ==
    \/ offered < FailureOffers /\ Send /\ UNCHANGED apiVars
    \/ /\ offered < FailureOffers
       /\ \E level \in Levels, r \in Draws : Write(level, r)
       /\ UNCHANGED apiVars
    \/ ~done /\ CloseCall /\ UNCHANGED apiVars
    \/ CloseReturn /\ UNCHANGED apiVars
    \/ Worker

SpecFailure ==
    InitFailure /\ [][NextFailure]_vars /\ WF_vars(Worker) /\ CloseFair

-----------------------------------------------------------------------------
(* From the queue to the server, with nobody calling Close: producers of   *)
(* error-level entries and of events, the worker, and a server that        *)
(* answers 200 to every request.  The worker goroutine is scheduled        *)
(* whenever it can run and every request is answered.                      *)

InitEndToEnd ==
    /\ dest \in {HTTPTransport, ObserveDestination}
    /\ endpointOK = TRUE
    /\ enabled = TRUE
    /\ batchSize \in 1 .. MaxBatchSize
    /\ sampling \in {NewSampling(cfg) : cfg \in SamplingConfigs}
    /\ recording = TRUE
    /\ InitState
    /\ NoFlush
    /\ NoClient
    /\ NoScrub
    /\ NoScope
    /\ NoCapture
    /\ NoLocking
    /\ NoRetryLoop
    /\ NoEvents
    /\ NoCalls

NextEndToEnd ==
    \/ offered < EndToEndOffers /\ Send /\ UNCHANGED apiVars
    \/ /\ offered < EndToEndOffers
       /\ \E r \in Draws : Write(LevelError, r)
       /\ UNCHANGED apiVars
    \/ WorkerReceive
    \/ WorkerTimer
    \/ HTTPSendAttempt(200)
    \/ ObserveSendAttempt(200)

EndToEndFair ==
    WF_vars(WorkerReceive \/ WorkerTimer \/ HTTPSendAttempt(200)
              \/ ObserveSendAttempt(200))

SpecEndToEnd == InitEndToEnd /\ [][NextEndToEnd]_vars /\ EndToEndFair

-----------------------------------------------------------------------------
(* Entries of every level written to an enabled ObserveDestination, for    *)
(* every sampling table and every draw.                                    *)

InitSampling ==
    /\ dest = ObserveDestination
    /\ endpointOK = TRUE
    /\ enabled = TRUE
    /\ batchSize = 1
    /\ sampling \in {NewSampling(cfg) : cfg \in SamplingConfigs}
    /\ recording = TRUE
    /\ InitState
    /\ NoFlush
    /\ NoClient
    /\ NoScrub
    /\ NoScope
    /\ NoCapture
    /\ NoLocking
    /\ NoRetryLoop
    /\ NoEvents
    /\ NoCalls

NextSampling ==
    \/ /\ offered < SamplingOffers
       /\ \E level \in Levels, r \in Draws : Write(level, r)
       /\ UNCHANGED apiVars
    \/ WorkerReceive
    \/ \E status \in Responses : ObserveSendAttempt(status)

SpecSampling == InitSampling /\ [][NextSampling]_vars

-----------------------------------------------------------------------------
(* The retry loop for every MaxRetries up to MaxMaxRetries and for short   *)
(* and long retry delays; no request succeeds before the last one.         *)

InitBackoff ==
    /\ dest = HTTPTransport
    /\ endpointOK = TRUE
    /\ enabled = TRUE
    /\ batchSize = 1
    /\ sampling = defaultSampling
    /\ recording = TRUE
    /\ InitState
    /\ NoFlush
    /\ NoClient
    /\ NoScrub
    /\ NoScope
    /\ NoCapture
    /\ NoLocking
    /\ backoff \in {RetryOptions(m, d) :
                      m \in 0 .. MaxMaxRetries,
                      d \in {Zero64, Nanosecond, Millisecond, Second,
                             Century}}
    /\ NoEvents
    /\ NoCalls

NextBackoff == \E ends \in BOOLEAN : RetryIteration(ends)

SpecBackoff == InitBackoff /\ [][NextBackoff]_vars

-----------------------------------------------------------------------------
(* The client and the package-level API over the HTTPTransport that        *)
(* NewClient makes.  No transport exists until NewClient has made one.     *)

NoTransport ==
    /\ queue = <<>>
    /\ done = FALSE
    /\ pc = "unstarted"
    /\ ret = "none"
    /\ batch = <<>>
    /\ timer = "stopped"
    /\ attempt = 0
    /\ posts = 0
    /\ outcomes = <<>>
    /\ delays = <<>>
    /\ lastStatus = NetErr
    /\ result = "none"
    /\ sent = <<>>
    /\ offered = 0
    /\ accepted = <<>>
    /\ overflow = 0
    /\ sendRet = FALSE
    /\ lastWrite = "none"
    /\ closeState = "none"
    /\ acceptedAtClose = <<>>
    /\ closeCalls = 0
    /\ panicked = FALSE

InitClient ==
    /\ dest = HTTPTransport
    /\ endpointOK = TRUE
    /\ enabled = TRUE
    /\ batchSize \in 1 .. MaxBatchSize
    /\ sampling = defaultSampling
    /\ recording = TRUE
    /\ NoTransport
    /\ NoFlush
    /\ NoClient
    /\ NoScrub
    /\ NoScope
    /\ NoCapture
    /\ NoLocking
    /\ NoRetryLoop
    /\ NoEvents
    /\ NoCalls

NextClient ==
    \/ \E o \in OptionSet : ClientNew(o)
    \/ \E o \in OptionSet, env \in DSNs :
          StatlyInit(o, env) /\ (lastOp'.err = Nil => client = Nil)
    \/ /\ offered < ClientOffers
       /\ globalClient = Nil
       /\ \E r \in Draws : ClientCaptureMessage(r)
       /\ UNCHANGED <<scrubVars, scopeVars, lockVars, extraVars, clientScope,
                      beforeSend, withScope, flushVars, minLevel, client, options,
                      givenOptions, globalClient, globalMu, capPc>>
    \/ StatlyCaptureCall
    \/ StatlyCaptureRLock
    \/ offered < ClientOffers /\ \E r \in Draws : StatlyCaptureMessage(r)
    \/ StatlyCloseCall
    \/ StatlyCloseReturn
    \/ WorkerReceive
    \/ WorkerTimer
    \/ WorkerDone
    \/ DrainReceive
    \/ DrainDefault
    \/ \E status \in Responses : HTTPSendAttempt(status)

SpecClient == InitClient /\ [][NextClient]_vars

-----------------------------------------------------------------------------
(* The package-level API from Init to Close and to Init again.  Init,      *)
(* Close and CaptureMessage are called by any number of goroutines, in any *)
(* order; globalMu serializes Init and Close.  A client that the package's *)
(* Close has closed, and its transport, are not looked at again: a capture *)
(* call that holds a client finishes before Init installs the next one.    *)

InitLifecycle ==
    /\ dest = HTTPTransport
    /\ endpointOK = TRUE
    /\ enabled = TRUE
    /\ batchSize = 1
    /\ sampling = defaultSampling
    /\ recording = TRUE
    /\ NoTransport
    /\ NoFlush
    /\ NoClient
    /\ NoScrub
    /\ NoScope
    /\ NoCapture
    /\ NoLocking
    /\ NoRetryLoop
    /\ NoEvents
    /\ NoCalls

NextLifecycle ==
    \/ \E o \in OptionSet, env \in DSNs :
          /\ StatlyInit(o, env)
          /\ lastOp'.err = Nil
               => Len(scopes) < LifecycleInits /\ capPc # "client"
    \/ StatlyCaptureCall
    \/ StatlyCaptureRLock
    \/ offered < LifecycleOffers /\ \E r \in Draws : StatlyCaptureMessage(r)
    \/ StatlyCloseCall
    \/ StatlyCloseReturn
    \/ WorkerReceive
    \/ WorkerTimer
    \/ WorkerDone
    \/ DrainReceive
    \/ DrainDefault
    \/ \E status \in Responses : HTTPSendAttempt(status)

SpecLifecycle == InitLifecycle /\ [][NextLifecycle]_vars

-----------------------------------------------------------------------------
(* A client over its HTTPTransport with a BeforeSend callback or none:     *)
(* callers of CaptureMessage and CaptureException, one call of the         *)
(* client's Close, the worker, and a server that answers whatever it       *)
(* likes.                                                                  *)

\* what a capture call of the client leaves alone
captureFrame == <<scrubVars, scopeVars, lockVars, extraVars, clientScope,
                  beforeSend, withScope, flushVars, minLevel, client,
                  options, givenOptions, globalClient, globalMu, capPc>>

CaptureMessageStep(r) == ClientCaptureMessage(r) /\ UNCHANGED captureFrame

CaptureExceptionStep(err, r) ==
    ClientCaptureException(err, r) /\ UNCHANGED captureFrame

\* rand.Float64() in a capture call: at most 0.5, and more
DeliveryDraws == {500, 501}

InitDelivery ==
    /\ dest = HTTPTransport
    /\ endpointOK = TRUE
    /\ enabled = TRUE
    /\ batchSize = 1
    /\ sampling = defaultSampling
    /\ recording = TRUE
    /\ NoTransport
    /\ NoFlush
    /\ NoClient
    /\ NoScrub
    /\ NoScope
    /\ clientScope = 0
    /\ beforeSend \in BeforeSendCallbacks
    /\ events = <<>>
    /\ withScope = 0
    /\ NoLocking
    /\ NoRetryLoop
    /\ NoEvents
    /\ NoCalls

NextDelivery ==
    \/ \E o \in OptionSet :
          o.DSN = ValidDSN /\ o.SampleRate # 0 /\ ClientNew(o)
    \/ /\ offered < DeliveryOffers
       /\ \E r \in DeliveryDraws : CaptureMessageStep(r)
    \/ /\ offered < DeliveryOffers
       /\ \E err \in Errors, r \in DeliveryDraws :
             CaptureExceptionStep(err, r)
    \/ client # Nil /\ ~done /\ CloseCall /\ UNCHANGED apiVars
    \/ CloseReturn /\ UNCHANGED apiVars
    \/ WorkerReceive
    \/ WorkerTimer
    \/ WorkerDone
    \/ DrainReceive
    \/ DrainDefault
    \/ \E status \in Responses : HTTPSendAttempt(status)

SpecDelivery == InitDelivery /\ [][NextDelivery]_vars

-----------------------------------------------------------------------------
(* Goroutines that call the client's setters and capture methods and the   *)
(* package's CurrentScope and WithScope, again and again.  Every goroutine *)
(* that can run is scheduled, and a goroutine that waits for a mutex gets  *)
(* it when it is free again and again (a sync.RWMutex keeps new readers    *)
(* out while a writer waits, and wakes its waiters in turn).               *)

InitOrder ==
    /\ dest = MockTransport
    /\ endpointOK = TRUE
    /\ enabled = TRUE
    /\ batchSize = 1
    /\ sampling = defaultSampling
    /\ recording = TRUE
    /\ NoTransport
    /\ NoFlush
    /\ NoClient
    /\ NoScrub
    /\ NoScope
    /\ NoCapture
    /\ NoLocking
    /\ NoRetryLoop
    /\ NoEvents
    /\ NoCalls

NextOrder ==
    \/ \E g \in ClientCallers, m \in ClientMethods, nested \in BOOLEAN :
          ClientCall(g, m, nested)
    \/ \E g \in ClientCallers : ClientLock(g)
    \/ \E g \in ClientCallers : ClientUnlock(g)
    \/ \E g \in ClientCallers : ClientRLock(g)
    \/ \E g \in ClientCallers : ClientRUnlock(g)
    \/ \E g \in ClientCallers : ClientOther(g)

OrderFair == \A g \in ClientCallers : SF_vars(ClientStep(g))

SpecOrder == InitOrder /\ [][NextOrder]_vars /\ OrderFair

-----------------------------------------------------------------------------
(* The Logger: initDestinations makes the ObserveDestination only when it  *)
(* is enabled; the sampling table is the defaults overridden by            *)
(* config.Sampling.                                                        *)

\* the levels the callers log at, and set as the minimum level
LoggedLevels == {LevelTrace, LevelError, LevelAudit}

InitLogger ==
    /\ dest = ObserveDestination
    /\ endpointOK = TRUE
    /\ enabled = TRUE
    /\ batchSize \in 1 .. MaxBatchSize
    /\ sampling \in {NewSampling(cfg) : cfg \in SamplingConfigs}
    /\ recording = TRUE
    /\ InitState
    /\ NoFlush
    /\ NoClient
    /\ NoScrub
    /\ NoScope
    /\ NoCapture
    /\ NoLocking
    /\ NoRetryLoop
    /\ NoEvents
    /\ NoCalls

NextLogger ==
    \/ \E level \in LoggedLevels : SetLevel(level)
    \/ /\ offered < LoggerOffers
       /\ \E level \in LoggedLevels, r \in Draws : Log(level, r)
    \/ offered < LoggerOffers /\ \E r \in Draws : Audit(r)
    \/ ~done /\ CloseCall /\ UNCHANGED apiVars
    \/ CloseReturn /\ UNCHANGED apiVars
    \/ WorkerReceive
    \/ WorkerTimer
    \/ WorkerDone
    \/ DrainReceive
    \/ DrainDefault
    \/ \E status \in Responses : ObserveSendAttempt(status)

SpecLogger == InitLogger /\ [][NextLogger]_vars

-----------------------------------------------------------------------------
(* Goroutines that call the methods of one Logger at the same time *)

InitLocks ==
    /\ dest = ObserveDestination
    /\ endpointOK = TRUE
    /\ enabled = TRUE
    /\ batchSize = 1
    /\ sampling = defaultSampling
    /\ recording = TRUE
    /\ InitState
    /\ NoFlush
    /\ NoClient
    /\ NoScrub
    /\ NoScope
    /\ NoCapture
    /\ NoLocking
    /\ NoRetryLoop
    /\ NoEvents
    /\ NoCalls

NextLocks ==
    \/ /\ offered < LockOffers
       /\ \E g \in Goroutines, m \in Methods, level \in LoggedLevels :
            LoggerCall(g, m, level)
    \/ \E g \in Goroutines : MuLock(g)
    \/ \E g \in Goroutines : MuUnlock(g)
    \/ \E g \in Goroutines : MuRLock(g)
    \/ \E g \in Goroutines : MuRUnlock(g)
    \/ \E g \in Goroutines, r \in Draws : ReadField(g, r)
    \/ \E g \in Goroutines : WriteField(g)

SpecLocks == InitLocks /\ [][NextLocks]_vars

-----------------------------------------------------------------------------
(* Scrub applied to the values of bounded depth, for every allowlist *)

InitScrub ==
    /\ dest = ObserveDestination
    /\ endpointOK = TRUE
    /\ enabled = TRUE
    /\ batchSize = 1
    /\ sampling = defaultSampling
    /\ recording = TRUE
    /\ NoTransport
    /\ NoFlush
    /\ NoClient
    /\ NoScope
    /\ NoCapture
    /\ NoLocking
    /\ NoRetryLoop
    /\ NoEvents
    /\ NoCalls
    /\ scrubber \in {NewScrubber(e, keys) : e \in BOOLEAN,
                                             keys \in AllowlistConfigs}
    /\ value \in Values(MaxDepth)
    /\ scrubbed = NoValue
    /\ memory = Alloc(<<>>, value).heap
    /\ valueRef = Alloc(<<>>, value).val
    /\ resultRef = NoWord
    /\ patterns = <<>>
    /\ texts = <<>>

NextScrub == ScrubCall

SpecScrub == InitScrub /\ [][NextScrub]_vars

(* ScrubString applied twice to the strings made of at most MaxPieces     *)
(* pieces, and Scrub applied to shallow values, for every pattern list    *)

ShallowValues == Leaves \cup {Map(<<k>>, <<x>>) : k \in Keys, x \in Leaves}

InitScrubString ==
    /\ dest = ObserveDestination
    /\ endpointOK = TRUE
    /\ enabled = TRUE
    /\ batchSize = 1
    /\ sampling = defaultSampling
    /\ recording = TRUE
    /\ NoTransport
    /\ NoFlush
    /\ NoClient
    /\ NoScope
    /\ NoCapture
    /\ NoLocking
    /\ NoRetryLoop
    /\ NoEvents
    /\ NoCalls
    /\ scrubber \in {NewScrubber(e, {}) : e \in BOOLEAN}
    /\ patterns \in {NewPatterns(names, custom) :
                        names \in PatternConfigs, custom \in CustomRegexps}
    /\ value \in ShallowValues
    /\ scrubbed = NoValue
    /\ memory = Alloc(<<>>, value).heap
    /\ valueRef = Alloc(<<>>, value).val
    /\ resultRef = NoWord
    /\ texts \in {<<x>> : x \in Strings(MaxPieces)}

NextScrubString ==
    \/ ScrubCall
    \/ ScrubStringCall

SpecScrubString == InitScrubString /\ [][NextScrubString]_vars

(* A Scope made by NewScope, with maxBreadcrumbs set as NewClient sets    *)
(* it, and its clones: every sequence of at most MaxScopeCalls calls      *)

InitScope ==
    /\ dest = HTTPTransport
    /\ endpointOK = TRUE
    /\ enabled = TRUE
    /\ batchSize = 1
    /\ sampling = defaultSampling
    /\ recording = TRUE
    /\ NoTransport
    /\ NoFlush
    /\ NoClient
    /\ NoScrub
    /\ NoCapture
    /\ NoLocking
    /\ NoRetryLoop
    /\ NoEvents
    /\ NoCalls
    /\ \E max \in 1 .. MaxCrumbCap :
          scopes = <<[NewScope(1) EXCEPT !.maxBreadcrumbs = max]>>
    /\ users = <<>>
    /\ tagCells = <<NoTags>>
    /\ arrays = <<>>
    /\ crumbLog = <<<<>>>>
    /\ scopeCalls = 0

\* a caller may call a method of a Scope that exists
MayCall(s) == scopeCalls < MaxScopeCalls /\ s \in 1 .. Len(scopes)

NextScope ==
    \/ \E s \in 1 .. MaxScopes, u \in UserIDs :
          MayCall(s) /\ ScopeSetUser(s, u)
    \/ \E s \in 1 .. MaxScopes, k \in TagKeys, v \in TagValues :
          MayCall(s) /\ ScopeSetTag(s, k, v)
    \/ \E s \in 1 .. MaxScopes, k \in TagKeys :
          MayCall(s) /\ ScopeRemoveTag(s, k)
    \/ \E s \in 1 .. MaxScopes, crumb \in CrumbMessages :
          MayCall(s) /\ ScopeAddBreadcrumb(s, crumb)
    \/ \E s \in 1 .. MaxScopes : MayCall(s) /\ ScopeClear(s)
    \/ \E s \in 1 .. MaxScopes : MayCall(s) /\ ScopeClone(s)

SpecScope == InitScope /\ [][NextScope]_vars

-----------------------------------------------------------------------------
(* The package-level API with a client whose transport is given in        *)
(* Options.Transport: Init, SetTag, CaptureMessage and WithScope, with    *)
(* the callback of WithScope calling methods of the Scope it is given.    *)
(* One goroutine calls the API: WithScope is entered and left between     *)
(* capture calls.                                                          *)

InitCapture ==
    /\ dest = MockTransport
    /\ endpointOK = TRUE
    /\ enabled = TRUE
    /\ batchSize = 1
    /\ sampling = defaultSampling
    /\ recording = TRUE
    /\ NoTransport
    /\ NoFlush
    /\ NoClient
    /\ NoScrub
    /\ NoScope
    /\ clientScope = 0
    /\ beforeSend \in BeforeSendCallbacks
    /\ events = <<>>
    /\ withScope = 0
    /\ NoLocking
    /\ NoRetryLoop
    /\ NoEvents
    /\ NoCalls

\* the callback may call a method of the Scope it was given
InCallback == withScope # 0 /\ scopeCalls < CaptureScopeCalls

NextCapture ==
    \/ \E o \in OptionSet :
          /\ o.DSN = ValidDSN /\ o.SampleRate # 0
          /\ globalClient = Nil
          /\ StatlyInit(o, "")
    \/ \E k \in TagKeys, v \in TagValues :
          scopeCalls < CaptureScopeCalls /\ StatlySetTag(k, v)
    \/ Len(scopes) < MaxScopes /\ StatlyWithScope
    \/ \E u \in UserIDs : InCallback /\ ScopeSetUser(withScope, u)
    \/ \E k \in TagKeys, v \in TagValues :
          InCallback /\ ScopeSetTag(withScope, k, v)
    \/ \E crumb \in CrumbMessages :
          InCallback /\ ScopeAddBreadcrumb(withScope, crumb)
    \/ WithScopeReturn
    \/ StatlyCaptureCall
    \/ StatlyCaptureRLock
    \/ Len(events) < CaptureOffers /\ \E r \in Draws : StatlyCaptureMessage(r)

SpecCapture == InitCapture /\ [][NextCapture]_vars

-----------------------------------------------------------------------------
(* A client over a MockTransport, as in the tests: one goroutine calls    *)
(* NewClient, the client's setters, Clear on the client's Scope and       *)
(* CaptureMessage, in any order.                                           *)

\* the maps passed to SetTags
TagMaps ==
    {[k \in {"foo", "baz"} |-> IF k = "foo" THEN "bar" ELSE "qux"],
     [k \in {"key"} |-> "modified"]}

InitSnapshot ==
    /\ dest = MockTransport
    /\ endpointOK = TRUE
    /\ enabled = TRUE
    /\ batchSize = 1
    /\ sampling = defaultSampling
    /\ recording = TRUE
    /\ NoTransport
    /\ NoFlush
    /\ NoClient
    /\ NoScrub
    /\ NoScope
    /\ clientScope = 0
    /\ beforeSend \in BeforeSendCallbacks
    /\ events = <<>>
    /\ withScope = 0
    /\ NoLocking
    /\ NoRetryLoop
    /\ NoEvents
    /\ NoCalls

NextSnapshot ==
    \/ \E o \in OptionSet :
          o.DSN = ValidDSN /\ o.SampleRate # 0 /\ ClientNew(o)
    \/ \E u \in UserIDs : scopeCalls < SnapshotCalls /\ ClientSetUser(u)
    \/ \E k \in TagKeys, v \in TagValues :
          scopeCalls < SnapshotCalls /\ ClientSetTag(k, v)
    \/ \E tags \in TagMaps : scopeCalls < SnapshotCalls /\ ClientSetTags(tags)
    \/ \E crumb \in CrumbMessages :
          scopeCalls < SnapshotCalls /\ ClientAddBreadcrumb(crumb)
    \/ scopeCalls < SnapshotCalls /\ ClientScopeClear
    \/ Len(events) < SnapshotOffers /\ \E r \in Draws : CaptureToMock(r)

SpecSnapshot == InitSnapshot /\ [][NextSnapshot]_vars

-----------------------------------------------------------------------------
(* Properties *)

FirstN(n) == [i \in 1 .. n |-> i]

\* the worker has not taken anything off the queue yet
Stalled == pc = "select" /\ batch = <<>> /\ sent = <<>>

\* every record the worker took off the queue has been handed to sendBatch
Drained == queue = <<>> /\ ((pc = "select" /\ batch = <<>>) \/ pc = "exited")

\* C1: the queue never holds more than its capacity; a record that reaches
\* a full queue is discarded, the queue and the accepted records stay as they
\* were and HTTPTransport.Send returns false; while the worker is stalled the
\* queue holds exactly the first min(n, K) of the n records offered, in
\* arrival order.
C1DropsNewestOnOverflow ==
    /\ [](Len(queue) <= QueueCap(dest))
    /\ [](Stalled => queue = FirstN(Min(offered, QueueCap(dest))))
    /\ [][(Len(queue) = QueueCap(dest) /\ offered' = offered + 1)
            => /\ queue' = queue
               /\ accepted' = accepted
               /\ overflow' = overflow + 1
               /\ (dest = HTTPTransport => sendRet' = FALSE)]_vars

C1Witness ==
    /\ dest = HTTPTransport
    /\ Stalled
    /\ offered = MaxOffers
    /\ overflow = MaxOffers - TransportQueueCap
    /\ queue = FirstN(TransportQueueCap)
    /\ sendRet = FALSE

\* C2: the records handed to sendBatch, read across the batches in order,
\* are the accepted records in acceptance order (a prefix of them while
\* records are still queued or pending).
C2SentInAcceptanceOrder == IsPrefix(Flatten(sent), accepted)

\* C3: no record is handed to sendBatch twice, and once the worker has
\* drained the queue every accepted record has been handed to it.
C3EachRecordInOneBatch ==
    /\ NoDuplicates(Flatten(sent))
    /\ (Drained => Range(accepted) = Range(Flatten(sent)))

\* C4: when Close returns the worker has exited and every record accepted
\* before Close was called has been handed to sendBatch; at the moment the
\* worker exits the batch it holds has been sent, no record accepted before
\* Close is on the queue, and the queue is empty when no record was accepted
\* after Close was called.
C4DrainOnClose ==
    /\ [](closeState = "returned"
            => /\ pc = "exited"
               /\ Range(acceptedAtClose) \subseteq Range(Flatten(sent)))
    /\ [][(pc # "exited" /\ pc' = "exited")
            => /\ Range(batch') \subseteq Range(Flatten(sent'))
               /\ Range(queue') \cap Range(acceptedAtClose') = {}
               /\ (accepted' = acceptedAtClose' => queue' = <<>>)]_vars

C4Witness ==
    /\ dest = ObserveDestination
    /\ batchSize = 2
    /\ closeState = "returned"
    /\ acceptedAtClose = <<1, 2, 3>>
    /\ sent = << <<1, 2, 3>> >>

\* C5: after a burst of 2B+3 accepted records has been drained, sendBatch
\* has been called exactly 3 times, with the first B records, the next B
\* records and the last 3 records.
C5BurstBatches ==
    (Len(accepted) = BurstRecords /\ Drained)
        => sent = << FirstN(batchSize),
                     [i \in 1 .. batchSize |-> batchSize + i],
                     [i \in 1 .. 3 |-> 2 * batchSize + i] >>

\* C6: a Close call on a destination that is already closed does not panic.
C6CloseIdempotent ==
    [][(done /\ closeCalls' = closeCalls + 1) => ~panicked']_vars

\* C7: a 200 or a 202 ends HTTPTransport.sendBatch's retry loop; when the
\* server answers 503, 503, 200 the call ends with its 3rd POST, and the
\* sleep before the 3rd POST is longer than the sleep before the 2nd.
C7RetryUntilSuccess ==
    [][(dest = HTTPTransport /\ pc = "sendBatch" /\ posts' = posts + 1)
        => /\ (lastStatus' \in {200, 202}
                  => pc' # "sendBatch" /\ result' = "success")
           /\ ((outcomes = <<503, 503>> /\ lastStatus' = 200)
                  => /\ posts' = 3
                     /\ Len(delays') = 2
                     /\ delays'[2] > delays'[1])]_vars

C7Witness ==
    /\ dest = HTTPTransport
    /\ result = "success"
    /\ posts = 3
    /\ lastStatus = 200
    /\ delays = <<2, 4>>

\* C8: while HTTPTransport.sendBatch is in its retry loop none of its POSTs
\* has come back with a 4xx; a POST that comes back with a 4xx is the last
\* of its call, and the only one when it is the first.
C8NoRetryOnClientError ==
    /\ [](dest = HTTPTransport /\ pc = "sendBatch"
            => \A i \in 1 .. Len(outcomes) : outcomes[i] \notin 400 .. 499)
    /\ [][(dest = HTTPTransport /\ pc = "sendBatch" /\ posts' = posts + 1
              /\ lastStatus' \in 400 .. 499)
            => /\ pc' # "sendBatch"
               /\ result' = "clientError"
               /\ (posts = 0 => posts' = 1)]_vars

C8Witness ==
    /\ dest = HTTPTransport
    /\ result = "clientError"
    /\ posts = 1
    /\ lastStatus = 404

\* C9: a call of HTTPTransport.sendBatch whose POSTs came back makes between
\* 1 and MaxRetries POSTs; the records of a batch whose attempts all failed
\* are not on the queue and are not in the next batch handed to sendBatch.
C9BoundedRetryThenAbandon ==
    /\ [](dest = HTTPTransport /\ endpointOK
              /\ result \in {"success", "clientError", "exhausted"}
            => posts >= 1 /\ posts <= MaxRetries)
    /\ [](dest = HTTPTransport /\ result = "exhausted"
            => Range(sent[Len(sent)]) \cap Range(queue) = {})
    /\ [][(dest = HTTPTransport /\ result = "exhausted"
              /\ Len(sent') = Len(sent) + 1)
            => Range(sent'[Len(sent')]) \cap Range(sent[Len(sent)]) = {}]_vars

\* C10: a POST of ObserveDestination.sendBatch that fails with a network
\* error or a 5xx, below the attempt budget, is followed by another attempt
\* for the same batch.
C10ObserveRetries ==
    [][(dest = ObserveDestination /\ pc = "sendBatch" /\ posts' = posts + 1
          /\ (lastStatus' = NetErr \/ lastStatus' \in 500 .. 599)
          /\ posts' < MaxRetries)
        => pc' = "sendBatch"]_vars

\* C11: once Close has returned the worker stays exited, no POST is issued
\* and no batch is handed to sendBatch, whatever the callers do; a record
\* that reaches the queue after Close has returned is in no batch.
C11ClosedIsTerminal ==
    /\ [][closeState = "returned"
            => /\ pc' = "exited"
               /\ posts' = posts
               /\ lastStatus' = lastStatus
               /\ sent' = sent]_vars
    /\ [][(closeState = "returned" /\ offered' = offered + 1)
            => (offered + 1) \notin Range(Flatten(sent'))]_vars

C11Witness ==
    /\ dest = HTTPTransport
    /\ closeState = "returned"
    /\ acceptedAtClose = <<1>>
    /\ sent = << <<1>> >>
    /\ posts = 1
    /\ queue = <<2>>
    /\ sendRet = TRUE

\* C12: Close returns only after the worker goroutine has exited, and a
\* Close that is waiting for the worker returns in the end, also when Send
\* goes on being called while the worker drains the queue.
C12CloseReturns ==
    /\ [](closeState = "returned" => pc = "exited")
    /\ ((closeState = "waiting") ~> (closeState = "returned"))

\* C13: a poll of HTTPTransport.Flush returns exactly when the queue is
\* empty or the deadline has passed, and a call of HTTPTransport.Flush
\* returns in the end, whatever the worker is doing.
C13FlushReturns ==
    /\ [][(dest = HTTPTransport /\ flushPc = "check" /\ flushPc' # "check")
            => (flushPc' = "returned"
                  <=> (queue = <<>> \/ elapsed >= flushTimeout))]_vars
    /\ ((dest = HTTPTransport /\ flushPc \in {"sleep", "check"})
            ~> (flushPc = "returned"))

C13Witness ==
    /\ dest = HTTPTransport
    /\ flushPc = "returned"
    /\ closeState = "returned"
    /\ queue # <<>>
    /\ flushTimeout = MaxFlushTimeout
    /\ elapsed = flushTimeout

\* C14: a call of ObserveDestination.Flush returns in the end, also when
\* the worker has been stopped by Close and a record is on the queue.
C14ObserveFlushReturns ==
    (dest = ObserveDestination /\ flushPc \in {"sleep", "check"})
        ~> (flushPc = "returned")

\* C15: a capture call that is about to take globalMu does not find it held
\* by a caller that is waiting for the worker goroutine.
C15CaptureNeverWaits ==
    (capPc = "RLock" /\ globalMu # "free") => pc = "exited"

C17SampleRateZeroDropsAll ==
    (client # Nil /\ givenOptions.SampleRate = 0)
        => offered = 0 /\ queue = <<>> /\ accepted = <<>>

\* C18: NewClient with an empty DSN returns ErrMissingDSN and no client and
\* leaves the client, the transport and its worker as they were; Init with
\* an empty DSN and no DSN in the environment returns an error and leaves
\* the global client, and everything else, as it was.
C18MissingDSNFailsFast ==
    /\ [][(lastOp'.tick # lastOp.tick /\ lastOp'.op = "NewClient"
              /\ lastOp'.DSN = "")
            => /\ lastOp'.err = "statly: DSN is required"
               /\ lastOp'.client = Nil
               /\ client' = client
               /\ globalClient' = globalClient
               /\ destVars' = destVars]_vars
    /\ [][(lastOp'.tick # lastOp.tick /\ lastOp'.op = "Init"
              /\ lastOp'.DSN = "" /\ lastOp'.env = "")
            => /\ lastOp'.err # Nil
               /\ globalClient' = globalClient
               /\ client' = client
               /\ destVars' = destVars]_vars
    /\ [](pc # "unstarted" => client # Nil /\ options.DSN # "")

C18Witness ==
    /\ lastOp.op = "NewClient"
    /\ lastOp.DSN = ""
    /\ lastOp.err = ErrMissingDSN
    /\ client = Nil
    /\ globalClient = Nil
    /\ pc = "unstarted"

\* the key is in the sensitive-key set and not in the allowlist, compared
\* without regard to case
RedactedKey(k) ==
    /\ k \in {"Password", "token"}
    /\ (k = "Password" => "password" \notin scrubber.allowlist)
    /\ (k = "token" => "token" \notin scrubber.allowlist)

\* w is v with the value of every entry under a sensitive key that is not
\* allow-listed replaced by the marker, at every depth
RECURSIVE KeyRedacted(_, _)
KeyRedacted(v, w) ==
    CASE v.kind = "map" ->
           /\ w.kind = "map" /\ w.keys = v.keys
           /\ Len(w.items) = Len(v.items)
           /\ \A i \in 1 .. Len(v.items) :
                 IF RedactedKey(v.keys[i])
                   THEN w.items[i] = Str("[REDACTED]")
                   ELSE KeyRedacted(v.items[i], w.items[i])
      [] v.kind = "list" ->
           /\ w.kind = "list"
           /\ Len(w.items) = Len(v.items)
           /\ \A i \in 1 .. Len(v.items) : KeyRedacted(v.items[i], w.items[i])
      [] OTHER -> TRUE

\* C19: in Scrub's result the value of every map entry, at every depth,
\* whose key is sensitive and not allow-listed is the marker "[REDACTED]".
C19KeyBasedRedaction ==
    (scrubbed # NoValue /\ scrubber.enabled) => KeyRedacted(value, scrubbed)

\* no string in w is one that a pattern matches
RECURSIVE StringsScrubbed(_)
StringsScrubbed(w) ==
    /\ (w.kind = "string" => w.str # "password=hunter2")
    /\ \A i \in 1 .. Len(w.items) : StringsScrubbed(w.items[i])

\* at every depth, the value under an allow-listed key has its strings
\* scrubbed and its entries under sensitive keys redacted
RECURSIVE AllowlistedScrubbed(_, _)
AllowlistedScrubbed(v, w) ==
    \/ v.kind \notin {"map", "list"}
    \/ w = Str("[REDACTED]")
    \/ /\ w.kind = v.kind
       /\ Len(w.items) = Len(v.items)
       /\ \A i \in 1 .. Len(v.items) :
             /\ AllowlistedScrubbed(v.items[i], w.items[i])
             /\ (v.kind = "map" /\ ToLower(v.keys[i]) \in scrubber.allowlist)
                   => /\ StringsScrubbed(w.items[i])
                      /\ KeyRedacted(v.items[i], w.items[i])

\* C20: the value under an allow-listed key is scrubbed like any other
\* value: sensitive keys inside it are redacted and a string inside it
\* that a pattern matches is replaced.
C20AllowlistOnlyExemptsKey ==
    (scrubbed # NoValue /\ scrubber.enabled)
        => AllowlistedScrubbed(value, scrubbed)

\* C21: Scrub does not change its input: a call with scrubbing enabled
\* leaves every cell of a map or slice that existed before the call with
\* exactly the entries it had, and what it changes is in the result only.
C21ScrubKeepsInput ==
    [][(scrubbed = NoValue /\ scrubbed' # NoValue /\ scrubber.enabled)
          => /\ Len(memory') >= Len(memory)
             /\ \A a \in 1 .. Len(memory) : memory'[a] = memory[a]
             /\ valueRef' = valueRef]_vars

\* Scrub has returned a value with a redacted entry, and its argument still
\* holds what it held
C21Witness ==
    /\ scrubber.enabled
    /\ value.kind = "map"
    /\ scrubbed # NoValue
    /\ scrubbed # value
    /\ resultRef.addr # valueRef.addr
    /\ \E i \in 1 .. Len(memory[resultRef.addr].items) :
          memory[resultRef.addr].items[i] = [kind |-> "string",
                                            str |-> "[REDACTED]", addr |-> 0]

\* C22: ScrubString of a string that ScrubString returned is that string;
\* and with scrubbing disabled Scrub and ScrubString return their argument.
C22ScrubStringIdempotent ==
    /\ Len(texts) = 3 => texts[3] = texts[2]
    /\ (Len(texts) >= 2 /\ ~scrubber.enabled) => texts[2] = texts[1]
    /\ (scrubbed # NoValue /\ ~scrubber.enabled)
          => /\ scrubbed = value
             /\ resultRef = valueRef

\* the last n elements of the sequence x
LastN(x, n) == SubSeq(x, Len(x) - n + 1, Len(x))

\* C23: a Scope with maxBreadcrumbs = M >= 1 to which n breadcrumbs have
\* been added holds min(n, M) breadcrumbs, the most recently added ones in
\* the order in which they were added.
C23BreadcrumbCap ==
    \A s \in 1 .. Len(scopes) :
        LET M == scopes[s].maxBreadcrumbs
            n == Len(crumbLog[s])
            held == Elems(arrays, scopes[s].breadcrumbs)
        IN  M >= 1 =>
              /\ Len(held) = IF n < M THEN n ELSE M
              /\ held = LastN(crumbLog[s], Len(held))

\* more breadcrumbs than maxBreadcrumbs have been added and the Scope
\* holds the last maxBreadcrumbs of them, the first one not among them
C23Witness ==
    /\ Len(scopes) >= 1
    /\ scopes[1].maxBreadcrumbs = 2
    /\ crumbLog[1] = <<"a", "b", "b">>
    /\ scopes[1].breadcrumbs.len = 2
    /\ Elems(arrays, scopes[1].breadcrumbs) = <<"b", "b">>

\* what the Scope at address t holds: its user, its tags, its breadcrumbs
View(ss, us, ts, as, t) ==
    [user |-> IF ss[t].user = 0 THEN "nil" ELSE us[ss[t].user],
     tags |-> ts[ss[t].tags],
     breadcrumbs |-> Elems(as, ss[t].breadcrumbs)]

\* C24: a clone starts with the user, tags and breadcrumbs of its
\* original; a call of SetUser, SetTag, RemoveTag, AddBreadcrumb, Clear or
\* Clone on one Scope leaves what every other Scope holds unchanged; and
\* after Clear the Scope has no user, no tags and no breadcrumbs.
C24CloneIsIndependent ==
    [][lastOp'.tick # lastOp.tick =>
         /\ \A t \in 1 .. Len(scopes) :
               lastOp'.scope # t =>
                 View(scopes', users', tagCells', arrays', t)
                   = View(scopes, users, tagCells, arrays, t)
         /\ lastOp'.op = "Clone" =>
               /\ Len(scopes') = Len(scopes) + 1
               /\ View(scopes', users', tagCells', arrays', Len(scopes'))
                    = View(scopes, users, tagCells, arrays, lastOp'.scope)
               /\ View(scopes', users', tagCells', arrays', lastOp'.scope)
                    = View(scopes, users, tagCells, arrays, lastOp'.scope)
         /\ lastOp'.op = "Clear" =>
               View(scopes', users', tagCells', arrays', lastOp'.scope)
                 = [user |-> "nil", tags |-> [k \in {} |-> ""],
                    breadcrumbs |-> <<>>]]_vars

\* a Scope with a user, a tag and a breadcrumb was cloned, the tag of the
\* original was then changed, and the clone still has what it started with
C24Witness ==
    /\ Len(scopes) = 2
    /\ lastOp.op = "SetTag" /\ lastOp.scope = 1
    /\ View(scopes, users, tagCells, arrays, 1)
         = [user |-> "123", tags |-> [k \in {"key"} |-> "modified"],
            breadcrumbs |-> <<"a">>]
    /\ View(scopes, users, tagCells, arrays, 2)
         = [user |-> "123", tags |-> [k \in {"key"} |-> "value"],
            breadcrumbs |-> <<"a">>]

\* the event that a capture call builds from the Scope at address t
Built(t) ==
    [message |-> "test",
     user |-> View(scopes, users, tagCells, arrays, t).user,
     tags |-> View(scopes, users, tagCells, arrays, t).tags,
     breadcrumbs |-> View(scopes, users, tagCells, arrays, t).breadcrumbs]

\* a step in which the client's CaptureMessage runs with a sample rate of
\* 1.0
Captures ==
    /\ capPc = "client"
    /\ capPc' = "idle"
    /\ options.SampleRate = 1000

\* C25: the transport is sent exactly the event that the BeforeSend
\* callback returned, with what the callback changed in it; when the
\* callback returns nil the transport is sent nothing and the capture call
\* returns "".
C25BeforeSendDecides ==
    [][Captures =>
         /\ beforeSend = "AddTag" =>
               /\ Len(events') = Len(events) + 1
               /\ events'[Len(events')] =
                    [Built(clientScope) EXCEPT !.tags =
                       [k \in DOMAIN @ \cup {"custom"} |->
                          IF k = "custom" THEN "added" ELSE @[k]]]
               /\ lastOp'.id # ""
         /\ beforeSend = "Drop" =>
               /\ events' = events
               /\ lastOp'.id = ""
         /\ beforeSend = "nil" =>
               /\ events' = Append(events, Built(clientScope))
               /\ lastOp'.id # ""]_vars

\* with the tag-adding callback an event was captured and the transport
\* holds it with the tag custom
C25Witness ==
    /\ beforeSend = "AddTag"
    /\ lastOp.op = "CaptureMessage"
    /\ lastOp.id = "EventID"
    /\ Len(events) = 1
    /\ events[1].message = "test"
    /\ events[1].tags["custom"] = "added"

\* C26: an event captured with the package's CaptureMessage inside the
\* callback of WithScope carries the tags and the user of the Scope that
\* the callback was given.
C26WithScopeEventsCarryScope ==
    [][(Captures /\ withScope # 0 /\ beforeSend = "nil"
          /\ Len(events') > Len(events))
         => LET e == events'[Len(events')]
                v == View(scopes, users, tagCells, arrays, withScope)
            IN  /\ \A k \in DOMAIN v.tags :
                     k \in DOMAIN e.tags /\ e.tags[k] = v.tags[k]
                /\ v.user # "nil" => e.user = v.user]_vars

\* C27: what the callback of WithScope sets on the Scope it was given does
\* not reach the client's Scope: only a call on the client's Scope changes
\* what that Scope holds, and an event captured after the callback has
\* returned carries what the client's Scope holds and nothing else.
C27ScopeRestored ==
    [][/\ (clientScope # 0
           /\ ~(lastOp'.tick # lastOp.tick /\ lastOp'.scope = clientScope))
          => /\ clientScope' = clientScope
             /\ View(scopes', users', tagCells', arrays', clientScope)
                  = View(scopes, users, tagCells, arrays, clientScope)
       /\ (Captures /\ withScope = 0 /\ beforeSend = "nil")
          => events' = Append(events, Built(clientScope))]_vars

\* a callback of WithScope set a user, a tag and a breadcrumb on its Scope
\* and returned, the client's Scope holds none of them, and the event
\* captured afterwards carries none of them
C27Witness ==
    /\ Len(scopes) = 2
    /\ clientScope = 1
    /\ withScope = 0
    /\ View(scopes, users, tagCells, arrays, 2).tags
         = [k \in {"key"} |-> "value"]
    /\ View(scopes, users, tagCells, arrays, 2).user = "123"
    /\ View(scopes, users, tagCells, arrays, 1)
         = [user |-> "nil", tags |-> [k \in {} |-> ""],
            breadcrumbs |-> <<>>]
    /\ lastOp.op = "CaptureMessage"
    /\ Len(events) = 1
    /\ events[1] = [message |-> "test", user |-> "nil",
                    tags |-> [k \in {} |-> ""], breadcrumbs |-> <<>>]

\* C28: a batch that fails does not stop the worker.  A call of sendBatch
\* that does not end in success (the payload is not serialized, the request
\* is not made, the server answers 4xx, the attempts are used up) leaves the
\* worker goroutine alive and where it would be after a successful call:
\* back in its select for a flush of the main loop, in the drain loop or
\* returned for a flush after Close.  And every record that the queue
\* accepts, those accepted after a failed batch among them, is handed to
\* sendBatch in some batch unless the destination is closed.
C28FailedBatchKeepsWorker ==
    /\ [][(/\ pc = "sendBatch"
           /\ ~panicked
           /\ \/ panicked'
              \/ pc' # "sendBatch" /\ result' # "success")
          => /\ ~panicked'
             /\ ret \in {"full", "timer"} => pc' = "select"
             /\ ret \in {"done", "drain"} => pc' = "drain"
             /\ ret = "exit" => pc' = "exited"]_vars
    /\ \A n \in 1 .. FailureOffers :
         (n \in Range(accepted)) ~> (n \in Range(Flatten(sent)) \/ done)

\* C29: the Logger's state is accessed only under l.mu.  A goroutine that
\* is about to read one of the Logger's fields holds the mutex (for reading
\* or for writing), a goroutine that is about to assign one holds it for
\* writing, and so no goroutine is about to read or assign a field that
\* another goroutine is about to assign.
C29LoggerStateUnderLock ==
    /\ \A g \in {"g1", "g2"} :
         LET c == calls[g]
             st == IF c.op = "idle" THEN <<"none", "none">>
                                    ELSE Body(c.op)[c.pc]
         IN  /\ st[1] = "Read"
                  => (g \in mu.readers \/ (mu.writer = g /\ mu.held))
             /\ st[1] = "Write" => (mu.writer = g /\ mu.held)
    /\ \A g, h \in {"g1", "g2"} :
         (/\ g # h
          /\ calls[g].op # "idle"
          /\ calls[h].op # "idle"
          /\ Body(calls[g].op)[calls[g].pc][1] = "Write"
          /\ Body(calls[h].op)[calls[h].pc][1] \in {"Read", "Write"})
           => Body(calls[g].op)[calls[g].pc][2]
                # Body(calls[h].op)[calls[h].pc][2]

\* C30: end to end.  With batch size 1, rate 1.0 for the level error and a
\* server that answers 200, an error-level entry is never sampled out,
\* every batch handed to sendBatch holds one record, no record is handed
\* over twice, no call of sendBatch posts more than once, and every record
\* that the queue accepts is handed to sendBatch in a batch of its own,
\* which is posted once and answered 200 (or is not posted at all because
\* json.Marshal rejects it), with nobody calling Close.
C30EndToEnd ==
    /\ [](batchSize = 1 /\ sampling[4] = 1000
            => /\ lastWrite # "sampledOut"
               /\ \A i \in 1 .. Len(sent) : Len(sent[i]) = 1
               /\ \A i, j \in 1 .. Len(sent) : i # j => sent[i] # sent[j]
               /\ posts <= 1
               /\ ~done)
    /\ \A n \in 1 .. EndToEndOffers :
         (batchSize = 1 /\ sampling[4] = 1000 /\ n \in Range(accepted))
           ~> (/\ \E i \in 1 .. Len(sent) : sent[i] = <<n>>
               /\ pc = "select"
               /\ \/ posts = 1 /\ lastStatus = 200 /\ result = "success"
                  \/ posts = 0 /\ result = "marshalError"
               /\ ~done)

\* an ObserveDestination with batch size 1 took one error-level entry at
\* rate 1.0; its worker has handed the batch of that entry to sendBatch,
\* one POST was answered 200, and the worker is back in its select
C30Witness ==
    /\ dest = ObserveDestination
    /\ batchSize = 1
    /\ sampling[4] = 1000
    /\ lastWrite = "queued"
    /\ accepted = <<1>>
    /\ queue = <<>>
    /\ sent = << <<1>> >>
    /\ posts = 1
    /\ lastStatus = 200
    /\ result = "success"
    /\ pc = "select"
    /\ ~done

\* C32: every batch handed to sendBatch holds at least one record and at
\* most BatchSize records, in the worker's main loop and in its drain loop
\* after Close.
C32BatchSizeBounded ==
    \A i \in 1 .. Len(sent) : Len(sent[i]) >= 1 /\ Len(sent[i]) <= batchSize

\* C33: the timer flush.  A record that the worker holds in its pending
\* batch while it waits in its select is handed to sendBatch, also when no
\* further record arrives and nobody calls Close: the timer expires, the
\* batch is flushed and the timer is armed again.  And as long as no record
\* has been accepted, neither a timer expiry nor Close makes the worker call
\* sendBatch or post anything.
C33TimerFlush ==
    /\ [](accepted = <<>> => (sent = <<>> /\ posts = 0 /\ pc # "sendBatch"))
    /\ \A n \in 1 .. FailureOffers :
         (pc = "select" /\ n \in Range(batch))
           ~> (n \in Range(Flatten(sent)))

\* two records, batch size 2, nobody has called Close: the first record was
\* flushed alone by the timer, and the timer has now flushed the second
C33Witness ==
    /\ ~done
    /\ batchSize = 2
    /\ accepted = <<1, 2>>
    /\ sent = << <<1>>, <<2>> >>
    /\ pc = "sendBatch"
    /\ ret = "timer"
    /\ queue = <<>>

\* C34: sampling admission.  The rate of a level is the rate that
\* config.Sampling has for it and otherwise the default (trace 0.01, debug
\* 0.1, info 0.5, warn, error, fatal and audit 1.0; in thousandths here),
\* and Write on an enabled ObserveDestination brings an entry below the
\* audit level with draw r to the send on the queue exactly when r is at
\* most the rate of its level; at rate 1.0 every entry gets there.
C34SamplingAdmission ==
    /\ [](\E cfg \in SamplingConfigs :
            \A level \in 0 .. 6 :
               sampling[level] =
                 IF level \in DOMAIN cfg
                   THEN cfg[level]
                   ELSE <<10, 100, 500, 1000, 1000, 1000, 1000>>[level + 1])
    /\ [][\A level \in 0 .. 5, r \in Draws :
            Write(level, r)
              => /\ (offered' = offered + 1) <=> (r <= sampling[level])
                 /\ (offered' = offered) <=> (r > sampling[level])
                 /\ (r <= sampling[level]
                       => lastWrite' \in {"queued", "dropped"})
                 /\ (sampling[level] = 1000 => offered' = offered + 1)]_vars

\* a debug entry with draw 0.1 at the default rate 0.1 is on the queue, and
\* the trace entry written after it with draw 0.011 was sampled out
C34Witness ==
    /\ sampling[LevelTrace] = 10
    /\ sampling[LevelDebug] = 100
    /\ offered = 1
    /\ accepted = <<1>>
    /\ lastWrite = "sampledOut"

\* the durations x < y, both not negative
Shorter(x, y) ==
    \E i \in 1 .. 4 : x[i] < y[i] /\ \A j \in 1 .. i - 1 : x[j] = y[j]

\* the k + 1 most significant bits of x are zero: x * 2^k is below 2^63
Fits(x, k) ==
    \A b \in 1 .. k + 1 :
       (x[((b - 1) \div 16) + 1] \div (2 ^ (15 - ((b - 1) % 16)))) % 2 = 0

\* C35: exponential backoff.  The retry loop does not sleep before its
\* first attempt and sleeps once before every later one; as long as
\* RetryDelay * 2^k is in the range of an int64, the sleep before attempt k
\* is RetryDelay * 2^k, which is positive and longer than the sleep before
\* attempt k - 1; with the defaults the sleeps are 2s and 4s.
C35ExponentialBackoff ==
    /\ backoff.RetryDelay # <<0, 0, 0, 0>>
    /\ backoff.RetryDelay[1] < 32768
    /\ Len(backoff.slept) =
         IF backoff.returned THEN backoff.attempt
         ELSE IF backoff.attempt = 0 THEN 0 ELSE backoff.attempt - 1
    /\ \A k \in 1 .. Len(backoff.slept) :
         Fits(backoff.RetryDelay, k)
           => /\ backoff.slept[k] = ShiftLeft(backoff.RetryDelay, k)
              /\ backoff.slept[k][1] < 32768
              /\ Shorter(backoff.RetryDelay, backoff.slept[k])
              /\ k > 1 => Shorter(backoff.slept[k - 1], backoff.slept[k])
    /\ (backoff.MaxRetries = 3 /\ backoff.RetryDelay = <<0, 0, 15258, 51712>>
          /\ backoff.attempt = 3)
         => backoff.slept = << <<0, 0, 30517, 37888>>, <<0, 0, 61035, 10240>> >>

\* the loop with the defaults (3 attempts, 1s) has used up its attempts
\* after sleeping 2s and 4s
C35Witness ==
    /\ backoff.MaxRetries = 3
    /\ backoff.RetryDelay = <<0, 0, 15258, 51712>>
    /\ backoff.attempt = 3
    /\ ~backoff.returned
    /\ backoff.slept = << <<0, 0, 30517, 37888>>, <<0, 0, 61035, 10240>> >>
\* C36: Flush is best-effort.  A poll of HTTPTransport.Flush that finds the
\* queue empty returns, also when the worker still holds a record in its
\* batch that it has not handed to sendBatch, or when a sendBatch call is
\* underway; so Flush returns before its deadline with an accepted record
\* that has not been handed to the sender (the state C36Witness).
C36FlushBestEffort ==
    [][(/\ dest = HTTPTransport
        /\ flushPc = "check"
        /\ flushPc' # "check"
        /\ queue = <<>>
        /\ (batch # <<>> \/ pc = "sendBatch"))
          => flushPc' = "returned"]_vars

\* Flush has returned before its deadline, so it found the queue empty, and
\* an accepted record sits in the worker's batch, not handed to sendBatch
C36Witness ==
    /\ dest = HTTPTransport
    /\ flushPc = "returned"
    /\ elapsed < flushTimeout
    /\ pc = "select"
    /\ queue = <<>>
    /\ batch # <<>>
    /\ Range(batch) \subseteq Range(accepted)
    /\ Range(batch) \cap Range(Flatten(sent)) = {}

\* C38: every record for which HTTPTransport.Send returned true is handed to
\* sendBatch in the end, however Send and Close interleave, and a Send that
\* starts once Close has closed the done channel returns false and leaves
\* the queue as it was.
C38AcknowledgedNeverStranded ==
    /\ \A n \in 1 .. FailureOffers :
         (dest = HTTPTransport /\ n \in Range(accepted))
           ~> (n \in Range(Flatten(sent)))
    /\ [][(dest = HTTPTransport /\ done /\ Send)
            => (sendRet' = FALSE /\ queue' = queue)]_vars

\* C31: an event is a snapshot of the client's Scope at capture time.  The
\* event that a capture call hands to the transport (no BeforeSend callback
\* set) carries exactly the user, the tags and the breadcrumbs that the
\* Scope holds at the call, and whatever SetUser, SetTag, SetTags,
\* AddBreadcrumb, Clear and capture calls follow, the user, tags and
\* breadcrumbs behind every event the transport holds stay as they were
\* when it was handed over.
C31EventIsSnapshot ==
    /\ [](/\ Len(handed) = Len(events)
          /\ \A i \in 1 .. Len(handed) :
                /\ EventAt(handed[i]).user = events[i].user
                /\ EventAt(handed[i]).tags = events[i].tags
                /\ EventAt(handed[i]).breadcrumbs = events[i].breadcrumbs)
    /\ [][(Len(handed') = Len(handed) + 1 /\ beforeSend = Nil)
            => LET sc == scopes[clientScope]
                   e == EventAt(handed[Len(handed)])'
               IN  /\ e.user = IF sc.user = 0 THEN Nil ELSE users[sc.user]
                   /\ e.tags = tagCells[sc.tags]
                   /\ e.breadcrumbs = crumbLog[clientScope]]_vars

\* an event was captured with a user and a breadcrumb set, and then the
\* client's Scope was cleared
C31Witness ==
    /\ Len(handed) = 1
    /\ EventAt(handed[1]).user = "123"
    /\ EventAt(handed[1]).tags = NoTags
    /\ EventAt(handed[1]).breadcrumbs = <<"a">>
    /\ lastOp.op = "Clear"
    /\ scopeCalls = SnapshotCalls
    /\ scopes[clientScope].user = 0

\* C37: at most one global client.  Init with a client installed returns
\* the already-initialized error and leaves the client, its options, its
\* transport and its Scope as they are; Init succeeds exactly when no client
\* is installed and a DSN is given, so of the Init calls that run one after
\* the other under globalMu only the first succeeds; when the package's
\* Close returns no client is installed; a capture call that finds no client
\* returns "" and changes nothing; Close with no client installed changes
\* nothing; and Init with a DSN succeeds again after Close.
C37OneGlobalClient ==
    /\ [][(lastOp'.tick # lastOp.tick /\ lastOp'.op = "Init")
            => /\ lastOp'.err = Nil
                    <=> (globalClient = Nil
                           /\ (lastOp'.DSN # "" \/ lastOp'.env # ""))
               /\ lastOp'.err = Nil => globalClient' # Nil
               /\ globalClient # Nil
                    => /\ lastOp'.err = ErrAlreadyInitialized
                       /\ globalClient' = globalClient
                       /\ client' = client
                       /\ options' = options
                       /\ givenOptions' = givenOptions
                       /\ destVars' = destVars
                       /\ scopeVars' = scopeVars
                       /\ captureVars' = captureVars]_vars
    /\ [][(lastOp'.tick # lastOp.tick /\ lastOp'.op = "Close")
            => /\ globalClient' = Nil
               /\ globalMu' = "free"
               /\ globalClient = Nil
                    => /\ destVars' = destVars
                       /\ client' = client
                       /\ options' = options
                       /\ scopeVars' = scopeVars
                       /\ captureVars' = captureVars]_vars
    /\ [][(capPc = "RLock" /\ capPc' # "RLock" /\ globalClient = Nil)
            => /\ lastOp'.op = "CaptureMessage"
               /\ lastOp'.id = ""
               /\ capPc' = "idle"
               /\ destVars' = destVars
               /\ globalClient' = Nil
               /\ scopeVars' = scopeVars
               /\ captureVars' = captureVars]_vars

\* Init has installed a second client after Close removed the first
C37Witness ==
    /\ Len(scopes) = LifecycleInits
    /\ globalClient # Nil
    /\ lastOp.op = "Init"
    /\ lastOp.err = Nil
    /\ pc = "select"
    /\ ~done

\* C39: a capture call of the client returns the event's ID exactly when
\* the transport took the event on its queue.  It returns "" and the queue
\* and the accepted events stay as they were when the error is nil, when
\* the event is sampled out, when BeforeSend returns nil (in these cases
\* the transport is not offered the event) and when the queue is full; no
\* capture call returns an error, and no goroutine panics, whatever the
\* server answers.
C39IdIffAccepted ==
    /\ [][\A r \in DeliveryDraws, err \in Errors :
            (/\ lastOp'.tick # lastOp.tick
             /\ CaptureMessageStep(r) \/ CaptureExceptionStep(err, r))
              => /\ lastOp'.id # ""
                      <=> /\ sendRet'
                          /\ queue' = Append(queue, offered + 1)
                          /\ accepted' = Append(accepted, offered + 1)
                 /\ lastOp'.id = ""
                      => queue' = queue /\ accepted' = accepted
                 /\ (r > options.SampleRate \/ beforeSend = "Drop")
                      => lastOp'.id = "" /\ offered' = offered
                 /\ CaptureExceptionStep(Nil, r)
                      => lastOp'.id = "" /\ offered' = offered
                 /\ (Len(queue) = TransportQueueCap /\ ~done)
                      => lastOp'.id = "" /\ overflow' >= overflow
                 /\ lastOp'.err = Nil
                 /\ ~panicked']_vars
    /\ [](~panicked)

\* the queue is full and the server has answered with an error: the capture
\* call came back with "", after one that came back with the ID
C39Witness ==
    /\ lastOp.op = "CaptureException"
    /\ lastOp.id = ""
    /\ beforeSend = Nil
    /\ options.SampleRate = 1000
    /\ Len(queue) = TransportQueueCap
    /\ overflow = 1
    /\ accepted = <<1, 2>>
    /\ ~done

\* goroutine g holds the mutex x, for reading or for writing
Holds(g, x) ==
    g \in mutexes[x].readers \/ (mutexes[x].writer = g /\ mutexes[x].held)

\* C40: no deadlock among the client's operations.  A goroutine that is
\* about to take Client.mu does not hold the Scope's mu, no goroutine asks
\* for a mutex it holds, a goroutine that holds the Scope's mu as a writer
\* holds Client.mu, a goroutine is in a user callback or in transport.Send
\* only with no mutex held, and every call returns in the end.
C40NoDeadlock ==
    /\ [](\A g \in ClientCallers :
            LET st == ClientStatement(running[g])
            IN  /\ (st[1] \in {"Lock", "RLock"} /\ st[2] = "c.mu")
                     => ~Holds(g, "s.mu")
                /\ st[1] \in {"Lock", "RLock"} => ~Holds(g, st[2])
                /\ (mutexes["s.mu"].writer = g /\ mutexes["s.mu"].held)
                     => Holds(g, "c.mu")
                /\ st[1] \in {"Callback", "Send"}
                     => \A x \in Mutexes : ~Holds(g, x))
    /\ \A g \in ClientCallers :
         (running[g].op # "idle") ~> (running[g].op = "idle")

\* a capture call waits for Client.mu, which a setter holds, while another
\* call ended: the setter is inside Scope.SetTag, called by a callback
C40Witness ==
    /\ running[1].op = "CaptureMessage"
    /\ ClientStatement(running[1]) = <<"RLock", "c.mu">>
    /\ running[2].op = "WithScope"
    /\ running[2].nested
    /\ ClientStatement(running[2]) = <<"Write", "scope">>
    /\ Holds(2, "c.mu")
    /\ Holds(2, "s.mu")

====
